---------------------------- MODULE Spec2Model ----------------------------
(***************************************************************************)
(* A model of tuyadevctlsrv-fhem (src/tuyadevctlsrv-fhem.js): the device   *)
(* registry (devices, deviceFromName), the HTTP command dispatcher, the    *)
(* device data pipeline, the blind calibration state machine, the timed    *)
(* percentage moves of a blind, and the connection manager (connect, the   *)
(* error and disconnected events of a handle, the reconnect loop).         *)
(*                                                                         *)
(* Device objects are JavaScript objects with identity.  They are modelled *)
(* as the cells of a bounded heap `rec`, addressed by record ids; the     *)
(* array `devices` and the Map `deviceFromName` hold record ids.           *)
(***************************************************************************)
EXTENDS Integers, Sequences, FiniteSets, TLC

VARIABLES
    rec,                    \* heap of Device objects: record id -> fields
    devices,                \* `devices` array (config.current.devices): Seq of record ids
    deviceFromName,         \* `deviceFromName` Map: name -> record id, NoRec when absent
    blindBeingCalibrated,   \* record id, NoRec for undefined
    blindCalibrationPhase,  \* 0.., UndefPhase for undefined
    pendingBegin,           \* record id -> number of beginBlindCalibration set commands in flight
    pendingConnect,         \* record id -> number of connectDevice promises in flight
    clock,                  \* time of the latest event (Date.now() / data.t)
    run,                    \* history of the calibration under way: is it on the canonical path
    last,                   \* the last completed handler: what it was and what it answered
    loops,                  \* record id -> the reconnectDevice calls under way, by position
    moves                   \* record id -> the setBlindPercentage call under way, NoMove if none

vars == <<rec, devices, deviceFromName, blindBeingCalibrated,
          blindCalibrationPhase, pendingBegin, pendingConnect, clock, run, last,
          loops, moves>>

---------------------------------------------------------------------------
(* Bounds of the model *)

MaxRecs == 2
MaxCfgDevs == 2
MaxTime == 8
MaxStep == 3
MaxPending == 1
MaxPhase == 7
MaxLoops == 2

RecIds == 1..MaxRecs
NoRec == 0
UndefPhase == -1

(* Input domains *)
Names == {"a", "b"}
Types == {"blind", "switch"}
Kinds == {"ip", "id"}
Addrs == {"x", "y"}
Keys == {"k"}
Values == {"open", "close", "stop"}
Undefined == "undefined"
NoArg == "null"

---------------------------------------------------------------------------
(* JavaScript numbers: undefined, NaN, or the rational n/d (d > 0, reduced) *)

RECURSIVE Gcd(_, _)
Gcd(x, y) == IF y = 0 THEN x ELSE Gcd(y, x % y)

Abs(x) == IF x < 0 THEN -x ELSE x

UndefNum == [k |-> "undef", n |-> 0, d |-> 1]
NaN == [k |-> "nan", n |-> 0, d |-> 1]
PosInf == [k |-> "inf", n |-> 1, d |-> 1]
NegInf == [k |-> "inf", n |-> -1, d |-> 1]

Rat(n, d) ==
    LET g == Gcd(Abs(n), Abs(d))
        s == IF d < 0 THEN -1 ELSE 1
    IN  [k |-> "num", n |-> (s * n) \div g, d |-> (s * d) \div g]

Num(n) == [k |-> "num", n |-> n, d |-> 1]

IsNum(x) == x.k = "num"

(* The history of a calibration: canon = the events so far were exactly   *)
(* the expected ones at strictly increasing times; close = the time from   *)
(* the close event to the stop event that followed it (-1 before it);      *)
(* open = the time from the second open event to the stop event that       *)
(* followed it (-1 before it); press = at phases 3 and 5, the time of the  *)
(* event that started the movement being measured (-1 elsewhere)           *)
NoRun == [canon |-> FALSE, close |-> -1, open |-> -1, press |-> -1]

(* The blank Device cell *)
BlankRec ==
    [alloc |-> FALSE, name |-> Undefined, type |-> Undefined,
     ip |-> Undefined, id |-> Undefined, key |-> Undefined,
     api |-> "none", hasProps |-> FALSE,
     defaultPropLastValue |-> Undefined, defaultPropLastChgTime |-> UndefNum,
     fullCloseTime |-> UndefNum, fullOpenTime |-> UndefNum,
     percentage |-> UndefNum]

(* A Device as it is read from the config file: no api, no propNameFromIdx *)
CfgRec(n, t, kd, a, ky) ==
    [BlankRec EXCEPT !.alloc = TRUE, !.name = n, !.type = t, ![kd] = a, !.key = ky]

---------------------------------------------------------------------------
(* Heap bookkeeping *)

Range(s) == {s[i] : i \in DOMAIN s}

(* No reconnectDevice call under way *)
NoLoops == [connecting |-> 0, retrying |-> 0, finishing |-> 0]

(* The reconnectDevice calls under way for Device i, and for all Devices *)
LoopCount(i) == loops[i].connecting + loops[i].retrying + loops[i].finishing

RECURSIVE LoopTotal(_)
LoopTotal(n) == IF n = 0 THEN 0 ELSE LoopCount(n) + LoopTotal(n - 1)

(* reconnectDevice(device, retryInterval), called by an event handler: it  *)
(* runs up to the call of device.api.find() and returns its promise, which *)
(* no caller keeps                                                         *)
reconnectDevice(l, i) == [l EXCEPT ![i].connecting = @ + 1]

(* No setBlindPercentage call under way *)
NoMove == [stage |-> "none", value |-> NoArg, wait |-> UndefNum, timer |-> UndefNum]

(* A Device object is still referenced: by the devices array, the Map, the *)
(* calibration variable, a pending promise, the event handlers of its api, *)
(* or the closure of a reconnectDevice or setBlindPercentage call          *)
Referenced(r, ds, dfn, bbc, pb, pc, i) ==
    \/ i \in Range(ds)
    \/ \E n \in Names : dfn[n] = i
    \/ bbc = i
    \/ pb[i] > 0
    \/ pc[i] > 0
    \/ r[i].api # "none"
    \/ loops[i] # NoLoops
    \/ moves[i] # NoMove

(* The heap once the reconnectDevice calls under way are l: a Device whose *)
(* last such call has ended is reclaimed unless it is referenced otherwise *)
CollectLoops(r, l) ==
    [i \in RecIds |->
        IF \/ l[i] # NoLoops
           \/ i \in Range(devices)
           \/ \E n \in Names : deviceFromName[n] = i
           \/ blindBeingCalibrated = i
           \/ pendingBegin[i] > 0
           \/ pendingConnect[i] > 0
           \/ r[i].api # "none"
           \/ moves[i] # NoMove
        THEN r[i] ELSE BlankRec]

(* The heap with the unreferenced Device objects reclaimed *)
Collect(r, ds, dfn, bbc, pb, pc) ==
    [i \in RecIds |-> IF Referenced(r, ds, dfn, bbc, pb, pc, i) THEN r[i] ELSE BlankRec]

FreeIds == {i \in RecIds : ~rec[i].alloc}
NewId == CHOOSE i \in FreeIds : \A j \in FreeIds : i <= j

---------------------------------------------------------------------------
(* Registry functions *)

(* renameDevice without the deviceFromName.delete(device.name) *)
renameDeviceMapKeepsOld(r, dfn, i, newName) == [dfn EXCEPT ![newName] = i]

(* deviceFromName.delete(device.name); deviceFromName.set(newName, device); *)
(* device.name = newName                                                    *)
renameDeviceMap(r, dfn, i, newName) ==
    [[dfn EXCEPT ![r[i].name] = NoRec] EXCEPT ![newName] = i]

renameDeviceRec(r, i, newName) == [r EXCEPT ![i].name = newName]

(* device.api = new TuyAPI(...); deviceFromName.set(device.name, device) *)
initDeviceRec(r, i) == [r EXCEPT ![i].api = "disc"]

initDeviceMap(r, dfn, i) == [dfn EXCEPT ![r[i].name] = i]

(* delete device.api; delete device.propNameFromIdx; deviceFromName.delete(device.name) *)
deinitDeviceRec(r, i) == [r EXCEPT ![i].api = "none", ![i].hasProps = FALSE]

deinitDeviceMap(r, dfn, i) == [dfn EXCEPT ![r[i].name] = NoRec]

(* `let device; for (device of devices) if (device.name === dev) break;`   *)
(* leaves in `device` the first Device named dev, else the LAST element    *)
(* of the array, else (empty array) undefined                              *)
NameLoop(r, ds, dev) ==
    IF ds = <<>> THEN NoRec
    ELSE IF \E j \in DOMAIN ds : r[ds[j]].name = dev
         THEN ds[CHOOSE j \in DOMAIN ds :
                    /\ r[ds[j]].name = dev
                    /\ \A m \in DOMAIN ds : r[ds[m]].name = dev => j <= m]
         ELSE ds[Len(ds)]

MatchesArgs(d, type, kd, value, key) ==
    d.type = type /\ d[kd] = value /\ d.key = key

(* The "Update existing device" branch of defineDevice *)
UpdateFields(d, type, kd, value, key) ==
    LET d1 == [d EXCEPT !.key = key]
        d2 == IF d1[kd] # value
              THEN IF d1[kd] # Undefined THEN [d1 EXCEPT ![kd] = value]
                   ELSE IF kd = "id" THEN [d1 EXCEPT !.ip = Undefined, !.id = value]
                   ELSE [d1 EXCEPT !.id = Undefined, !.ip = value]
              ELSE d1
    IN  [d2 EXCEPT !.type = type]

(* The search of the else branch: first Device matching all args but the name *)
ArgsLoop(r, ds, type, kd, value, key) ==
    IF \E j \in DOMAIN ds : MatchesArgs(r[ds[j]], type, kd, value, key)
    THEN ds[CHOOSE j \in DOMAIN ds :
               /\ MatchesArgs(r[ds[j]], type, kd, value, key)
               /\ \A m \in DOMAIN ds : MatchesArgs(r[ds[m]], type, kd, value, key) => j <= m]
    ELSE NoRec

(* defineDevice: the Device it returns and the heap and Map it leaves *)
defineDevice(r, ds, dfn, fresh, dev, type, kd, value, key) ==
    LET device == NameLoop(r, ds, dev)
    IN  IF device # NoRec /\ MatchesArgs(r[device], type, kd, value, key)
        THEN [dev |-> device,
              rec |-> initDeviceRec(r, device),
              map |-> initDeviceMap(r, dfn, device)]
        ELSE IF device # NoRec
        THEN LET r1 == [r EXCEPT ![device] = UpdateFields(r[device], type, kd, value, key)]
             IN  [dev |-> device,
                  rec |-> initDeviceRec(r1, device),
                  map |-> initDeviceMap(r1, dfn, device)]
        ELSE LET found == ArgsLoop(r, ds, type, kd, value, key)
             IN  IF found # NoRec
                 THEN LET r1 == renameDeviceRec(r, found, dev)
                          m1 == renameDeviceMap(r, dfn, found, dev)
                      IN  [dev |-> found,
                           rec |-> initDeviceRec(r1, found),
                           map |-> initDeviceMap(r1, m1, found)]
                 ELSE LET r1 == [r EXCEPT ![fresh] = CfgRec(dev, type, kd, value, key)]
                      IN  [dev |-> fresh,
                           rec |-> initDeviceRec(r1, fresh),
                           map |-> initDeviceMap(r1, dfn, fresh)]

---------------------------------------------------------------------------
(* The HTTP command dispatcher, processHttpRequest *)

(* What a handler leaves in `last`: the command, the device name, the      *)
(* answer, and whether a command was sent to the device                    *)
Done(op, dev, resp, cmd) ==
    [op |-> op, dev |-> dev, resp |-> resp, cmd |-> cmd, note |-> "none"]

(* fhemClient.callFn(device.name, note, true): a handler that forwards a    *)
(* notification upstream                                                   *)
Notified(op, dev, resp, note) == [Done(op, dev, resp, FALSE) EXCEPT !.note = note]

NetUnchanged == UNCHANGED <<loops, moves>>

(* invalidRequest(res, message): the request for dev is answered with the  *)
(* message and nothing else happens                                        *)
invalidRequest(op, dev, message) == Done(op, dev, message, FALSE)

CalUnchanged ==
    UNCHANGED <<blindBeingCalibrated, blindCalibrationPhase, pendingBegin,
                pendingConnect, clock, run>>

(* case 'define': the name must not be in deviceFromName; defineDevice     *)
(* creates a Device object only when the devices array is empty            *)
HttpDefine(dev, type, kd, value, key) ==
    /\ CalUnchanged
    /\ NetUnchanged
    /\ IF deviceFromName[dev] # NoRec
       THEN /\ last' = invalidRequest("define", dev, "already defined")
            /\ UNCHANGED <<rec, devices, deviceFromName>>
       ELSE /\ (devices = << >>) => FreeIds # {}
            /\ LET res == defineDevice(rec, devices, deviceFromName, NewId,
                                       dev, type, kd, value, key)
                   r1 == [res.rec EXCEPT ![res.dev].hasProps = TRUE]
               IN  /\ rec' = Collect(r1, devices, res.map, blindBeingCalibrated, pendingBegin, pendingConnect)
                   /\ deviceFromName' = res.map
            /\ last' = Done("define", dev, "succ", FALSE)
            /\ UNCHANGED devices

HttpRename(dev, arg) ==
    /\ CalUnchanged
    /\ NetUnchanged
    /\ UNCHANGED devices
    /\ LET device == deviceFromName[dev]
       IN  IF device = NoRec
           THEN /\ last' = invalidRequest("rename", dev, "unknown device")
                /\ UNCHANGED <<rec, deviceFromName>>
           ELSE IF arg = NoArg
           THEN /\ last' = invalidRequest("rename", dev, "arg not specified")
                /\ UNCHANGED <<rec, deviceFromName>>
           ELSE LET m1 == renameDeviceMap(rec, deviceFromName, device, arg)
                    r1 == renameDeviceRec(rec, device, arg)
                IN  /\ deviceFromName' = m1
                    /\ rec' = Collect(r1, devices, m1, blindBeingCalibrated, pendingBegin, pendingConnect)
                    /\ last' = Done("rename", dev, "succ", FALSE)

(* The ways the handle of d can deliver the 'disconnected' event of the    *)
(* disconnect() call of disconnectDevice: TRUE = from within the call,     *)
(* FALSE = later or never; there is no call unless the handle is connected *)
DisconnectEmits(d) == IF d.api = "conn" THEN BOOLEAN ELSE {FALSE}

(* case 'undef': undefDevice is disconnectDevice, then deinitDevice; an    *)
(* event emitted from within disconnect() runs onDeviceDisconnected while  *)
(* device.api is still there                                               *)
HttpUndef(dev) ==
    /\ CalUnchanged
    /\ UNCHANGED <<devices, moves>>
    /\ LET device == deviceFromName[dev]
       IN  IF device = NoRec
           THEN /\ last' = invalidRequest("undef", dev, "unknown device")
                /\ UNCHANGED <<rec, deviceFromName, loops>>
           ELSE \E sync \in DisconnectEmits(rec[device]) :
                LET m1 == deinitDeviceMap(rec, deviceFromName, device)
                    r1 == deinitDeviceRec(rec, device)
                    l1 == IF sync THEN reconnectDevice(loops, device) ELSE loops
                    kept == Collect(r1, devices, m1, blindBeingCalibrated, pendingBegin, pendingConnect)
                IN  /\ sync => LoopTotal(MaxRecs) < MaxLoops
                    /\ deviceFromName' = m1
                    /\ loops' = l1
                    /\ rec' = [i \in RecIds |-> IF l1[i] # NoLoops THEN r1[i] ELSE kept[i]]
                    /\ last' = IF sync
                               THEN Notified("undef", dev, "succ", "OnDisconnected")
                               ELSE Done("undef", dev, "succ", FALSE)

(* case 'delete': the call of deleteDevice is commented out *)
HttpDelete(dev) ==
    /\ CalUnchanged
    /\ NetUnchanged
    /\ UNCHANGED <<rec, devices, deviceFromName>>
    /\ IF deviceFromName[dev] = NoRec
       THEN last' = invalidRequest("delete", dev, "unknown device")
       ELSE last' = Done("delete", dev, "succ", FALSE)

---------------------------------------------------------------------------
(* The registry specification: any config file's device list, then any     *)
(* sequence of define, rename, undef and delete requests                   *)

CfgRecs == {CfgRec(n, t, kd, a, ky) :
                n \in Names, t \in Types, kd \in Kinds, a \in Addrs, ky \in Keys}

CfgLists ==
    {c \in UNION {[1..n -> CfgRecs] : n \in 0..MaxCfgDevs} :
        \A i, j \in DOMAIN c : i # j => c[i].name # c[j].name}

InitWith(cfg) ==
    /\ rec = [i \in RecIds |-> IF i <= Len(cfg) THEN cfg[i] ELSE BlankRec]
    /\ devices = [i \in 1..Len(cfg) |-> i]
    /\ deviceFromName = [n \in Names |-> NoRec]
    /\ blindBeingCalibrated = NoRec
    /\ blindCalibrationPhase = UndefPhase
    /\ pendingBegin = [i \in RecIds |-> 0]
    /\ pendingConnect = [i \in RecIds |-> 0]
    /\ clock = 0
    /\ run = NoRun
    /\ last = Done("startup", NoArg, "succ", FALSE)
    /\ loops = [i \in RecIds |-> NoLoops]
    /\ moves = [i \in RecIds |-> NoMove]

Init == \E cfg \in CfgLists : InitWith(cfg)

Define == \E dev \in Names, t \in Types, kd \in Kinds, a \in Addrs, ky \in Keys :
              HttpDefine(dev, t, kd, a, ky)

Rename == \E dev \in Names, arg \in Names \cup {NoArg} : HttpRename(dev, arg)

Undef == \E dev \in Names : HttpUndef(dev)

Delete == \E dev \in Names : HttpDelete(dev)

Next == Define \/ Rename \/ Undef \/ Delete

Spec == Init /\ [][Next]_vars

---------------------------------------------------------------------------
(* JavaScript arithmetic on the numbers above *)

JsSub(a, b) ==
    IF IsNum(a) /\ IsNum(b) THEN Rat(a.n * b.d - b.n * a.d, a.d * b.d) ELSE NaN

(* A negation that keeps the sign *)
JsNegKeeps(a) == a

JsNeg(a) ==
    IF a.k \in {"num", "inf"} THEN [a EXCEPT !.n = -a.n] ELSE NaN

JsTimes100(a) == IF IsNum(a) THEN Rat(100 * a.n, a.d) ELSE NaN

(* a / b for finite a; b is never -0 (a stored time is a difference x - y) *)
JsDiv(a, b) ==
    IF ~(IsNum(a) /\ IsNum(b)) THEN NaN
    ELSE IF b.n = 0
         THEN IF a.n > 0 THEN PosInf ELSE IF a.n < 0 THEN NegInf ELSE NaN
         ELSE Rat(a.n * b.d, a.d * b.n)

JsAdd(a, b) ==
    IF IsNum(a) /\ IsNum(b) THEN Rat(a.n * b.d + b.n * a.d, a.d * b.d)
    ELSE IF IsNum(a) /\ b.k = "inf" THEN b
    ELSE NaN

(* a * b for a finite or NaN; a stored time is never infinite *)
JsMul(a, b) ==
    IF IsNum(a) /\ IsNum(b) THEN Rat(a.n * b.n, a.d * b.d) ELSE NaN

JsLess(a, c) == (IsNum(a) /\ a.n < c * a.d) \/ a = NegInf

JsGreater(a, c) == (IsNum(a) /\ a.n > c * a.d) \/ a = PosInf

---------------------------------------------------------------------------
(* The blind calibration engine *)

(* A set command that counts every response of the device as a success *)
SetSuccessAlways(d, propIdx, value, currValue) == TRUE

(* setDevProp's `success`, given the value the device reports back *)
SetSuccess(d, propIdx, value, currValue) ==
    \/ /\ d.type = "blind" /\ propIdx = 1 /\ value # "stop"
       /\ \/ d.defaultPropLastValue = "open" /\ value = "close"
          \/ d.defaultPropLastValue = "close" /\ value = "open"
       /\ currValue = "stop"
    \/ currValue = value

(* An abort that forgets the target but keeps a phase *)
ClearedTargetOnly(d) == [dev |-> d, phase |-> 0, target |-> NoRec]

(* blindCalibrationPhase = blindBeingCalibrated = undefined *)
Cleared(d) == [dev |-> d, phase |-> UndefPhase, target |-> NoRec]

(* A calibration step that skips a phase *)
blindCalibrationProgressSkips(d, i, phase, currValue, currTime) ==
    [dev |-> d, phase |-> phase + 2, target |-> i]

(* blindCalibrationProgress(device, currValue, currTime) with               *)
(* blindBeingCalibrated = i and blindCalibrationPhase = phase: the Device   *)
(* and the two globals it leaves.  newFullCloseTime and newFullOpenTime are *)
(* locals of one call: what an earlier call measured is gone.               *)
blindCalibrationProgress(d, i, phase, currValue, currTime) ==
    LET next == [dev |-> d, phase |-> phase + 1, target |-> i]
        same == [dev |-> d, phase |-> phase, target |-> i]
        newFullCloseTime == UndefNum
        newFullOpenTime == JsSub(Num(currTime), d.defaultPropLastChgTime)
    IN  CASE phase = 0 -> IF currValue # "open" THEN Cleared(d) ELSE next
          [] phase = 1 -> IF currValue = "open" THEN same
                          ELSE IF currValue # "stop" THEN Cleared(d) ELSE next
          [] phase = 2 -> IF currValue # "close" THEN Cleared(d) ELSE next
          [] phase = 3 -> IF currValue = "close" THEN same
                          ELSE IF currValue # "stop" THEN Cleared(d) ELSE next
          [] phase = 4 -> IF currValue # "open" THEN Cleared(d) ELSE next
          [] phase = 5 ->
                IF currValue = "open" THEN same
                ELSE IF currValue # "stop" THEN Cleared(d)
                ELSE IF d.fullCloseTime.k # "undef" /\ d.fullOpenTime.k # "undef"
                     THEN next
                     ELSE Cleared([d EXCEPT !.fullCloseTime = newFullCloseTime,
                                            !.fullOpenTime = newFullOpenTime,
                                            !.percentage = Num(0)])
          [] phase = 6 ->
                IF currValue = "open"
                THEN [next EXCEPT !.dev = [d EXCEPT !.fullCloseTime = UndefNum,
                                                    !.fullOpenTime = UndefNum,
                                                    !.percentage = Num(0)]]
                ELSE next
          [] OTHER -> next

(* The canonical path: the value expected at each phase *)
Expected(phase) ==
    CASE phase \in {0, 4} -> "open"
      [] phase = 2 -> "close"
      [] OTHER -> "stop"

(* The direction whose repetition phases 1, 3 and 5 absorb *)
Repeated(phase) ==
    CASE phase \in {1, 5} -> "open"
      [] phase = 3 -> "close"
      [] OTHER -> NoArg

(* The message blindCalibrationProgress returns, by kind; "none" stands    *)
(* for undefined (a repeated direction, and any phase after 6)             *)
calibrationMessage(d, phase, currValue) ==
    CASE phase \in {0, 2, 4} ->
             IF currValue # Expected(phase) THEN "aborted" ELSE "progress"
      [] phase \in {1, 3} ->
             IF currValue = Repeated(phase) THEN "none"
             ELSE IF currValue # "stop" THEN "aborted" ELSE "progress"
      [] phase = 5 ->
             IF currValue = "open" THEN "none"
             ELSE IF currValue # "stop" THEN "aborted"
             ELSE IF d.fullCloseTime.k # "undef" /\ d.fullOpenTime.k # "undef"
                  THEN "choose" ELSE "finished"
      [] phase = 6 -> IF currValue = "open" THEN "applied" ELSE "discarded"
      [] OTHER -> "none"

(* updateBlindPercentage(device, currTime) *)
updateBlindPercentage(d, currTime) ==
    LET deltaT == JsSub(Num(currTime), d.defaultPropLastChgTime)
        fullTime == IF d.defaultPropLastValue = "close"
                    THEN d.fullCloseTime ELSE d.fullOpenTime
        quot == JsDiv(JsTimes100(deltaT), fullTime)
        step == IF d.defaultPropLastValue = "close" THEN quot ELSE JsNeg(quot)
        sum == JsAdd(d.percentage, step)
    IN  [d EXCEPT !.percentage = IF JsLess(sum, 0) THEN Num(0)
                                 ELSE IF JsGreater(sum, 100) THEN Num(100)
                                 ELSE sum]

(* An event pipeline that updates the percentage on every event *)
PercentageDueAlways(d, lastValue, currValue) == TRUE

(* The guard of the percentage update in onDeviceData *)
PercentageDue(d, lastValue, currValue) ==
    currValue = "stop" /\ lastValue # "stop" /\ d.percentage.k # "undef"

(* The snapshots a handle delivers: one property (index 1 with its value,  *)
(* or another index) or several properties                                 *)
Snapshots == [n : {1}, idx : {1}, value : Values]
             \cup {[n |-> 1, idx |-> 2, value |-> "on"], [n |-> 2, idx |-> 1, value |-> "stop"]}

(* An event pipeline that stamps every event as a change of the default    *)
(* property                                                                *)
onDeviceDataStamps(d, i, bbc, phase, data, currTime) ==
    LET c == IF d.type = "blind" /\ bbc = i /\ data.n = 1 /\ data.idx = 1
             THEN blindCalibrationProgress(d, i, phase, data.value, currTime)
             ELSE [dev |-> d, phase |-> phase, target |-> bbc]
    IN  [c EXCEPT !.dev.defaultPropLastValue = data.value,
                  !.dev.defaultPropLastChgTime = Num(currTime)]

(* An event pipeline that stamps the value and the time of the event       *)
(* before the calibration step and the percentage update run               *)
onDeviceDataStampsFirst(d, i, bbc, phase, data, currTime) ==
    IF data.n # 1 \/ data.idx # 1
    THEN [dev |-> d, phase |-> phase, target |-> bbc]
    ELSE LET currValue == data.value
             d0 == IF d.defaultPropLastValue # currValue
                   THEN [d EXCEPT !.defaultPropLastValue = currValue,
                                  !.defaultPropLastChgTime = Num(currTime)]
                   ELSE d
             c == IF d.type = "blind" /\ bbc = i
                  THEN blindCalibrationProgress(d0, i, phase, currValue, currTime)
                  ELSE [dev |-> d0, phase |-> phase, target |-> bbc]
         IN  IF d.type = "blind" /\ PercentageDue(c.dev, d.defaultPropLastValue, currValue)
             THEN [c EXCEPT !.dev = updateBlindPercentage(c.dev, currTime)]
             ELSE c

(* An event pipeline that takes the value of every snapshot for a change   *)
(* of the default property                                                 *)
onDeviceDataAnySnapshot(d, i, bbc, phase, data, currTime) ==
    LET currValue == data.value
        c == IF d.type = "blind" /\ bbc = i
             THEN blindCalibrationProgress(d, i, phase, currValue, currTime)
             ELSE [dev |-> d, phase |-> phase, target |-> bbc]
        d1 == IF d.type = "blind" /\ PercentageDue(c.dev, c.dev.defaultPropLastValue, currValue)
              THEN updateBlindPercentage(c.dev, currTime)
              ELSE c.dev
        d2 == IF d1.defaultPropLastValue # currValue
              THEN [d1 EXCEPT !.defaultPropLastValue = currValue,
                              !.defaultPropLastChgTime = Num(currTime)]
              ELSE d1
    IN  [c EXCEPT !.dev = d2]

(* onDeviceData(device, data) for Device i, data.t / Date.now() = currTime *)
onDeviceData(d, i, bbc, phase, data, currTime) ==
    IF data.n # 1 \/ data.idx # 1
    THEN [dev |-> d, phase |-> phase, target |-> bbc]
    ELSE LET currValue == data.value
             c == IF d.type = "blind" /\ bbc = i
                  THEN blindCalibrationProgress(d, i, phase, currValue, currTime)
                  ELSE [dev |-> d, phase |-> phase, target |-> bbc]
             d1 == IF d.type = "blind" /\ PercentageDue(c.dev, c.dev.defaultPropLastValue, currValue)
                   THEN updateBlindPercentage(c.dev, currTime)
                   ELSE c.dev
             d2 == IF d1.defaultPropLastValue # currValue
                   THEN [d1 EXCEPT !.defaultPropLastValue = currValue,
                                   !.defaultPropLastChgTime = Num(currTime)]
                   ELSE d1
         IN  [c EXCEPT !.dev = d2]

(* The property map the define request of the modelled devices carries:    *)
(* index 1 is the default property, no other index is configured           *)
propNameFromIdx(idx) == IF idx = 1 THEN "state" ELSE Undefined

(* fhemClient.callFn(device.name, 'OnPropChanged', true, false, name, value) *)
OnPropChanged(name, value) == "OnPropChanged " \o name \o " " \o value

(* An event pipeline that reports every snapshot *)
PropChangedAlways(data) == OnPropChanged(propNameFromIdx(data.idx), data.value)

(* The OnPropChanged notification of onDeviceData for a native property:   *)
(* none unless data.dps holds exactly one property                         *)
PropChanged(data) ==
    IF data.n # 1
    THEN "none"
    ELSE OnPropChanged(propNameFromIdx(data.idx), data.value)

(* The handle of Device i delivers a snapshot at time t; noted: the        *)
(* history variable `last` also records the OnPropChanged notification     *)
DeviceEvent(i, data, t, noted) ==
    /\ NetUnchanged
    /\ rec[i].api = "conn"
    /\ rec[i].hasProps
    /\ t >= clock
    /\ clock' = t
    /\ last' = Notified("data", NoArg,
                        IF blindBeingCalibrated = i /\ rec[i].type = "blind"
                           /\ data.n = 1 /\ data.idx = 1
                        THEN calibrationMessage(rec[i], blindCalibrationPhase, data.value)
                        ELSE "succ",
                        IF noted THEN PropChanged(data) ELSE "none")
    /\ UNCHANGED <<devices, deviceFromName, pendingBegin, pendingConnect>>
    /\ (blindBeingCalibrated = i /\ rec[i].type = "blind" /\ data.n = 1 /\ data.idx = 1)
           => blindCalibrationPhase < MaxPhase
    /\ LET res == onDeviceData(rec[i], i, blindBeingCalibrated,
                               blindCalibrationPhase, data, t)
       IN  /\ blindBeingCalibrated' = res.target
           /\ blindCalibrationPhase' = res.phase
           /\ run' = IF blindBeingCalibrated = i /\ rec[i].type = "blind"
                        /\ data.n = 1 /\ data.idx = 1
                     THEN IF res.target = NoRec THEN NoRun
                          ELSE [canon |-> /\ run.canon
                                          /\ data.value = Expected(blindCalibrationPhase)
                                          /\ (blindCalibrationPhase > 0 => t > clock),
                                close |-> IF blindCalibrationPhase = 3 /\ data.value = "stop"
                                          THEN t - rec[i].defaultPropLastChgTime.n
                                          ELSE run.close,
                                open |-> IF blindCalibrationPhase = 5 /\ data.value = "stop"
                                         THEN t - rec[i].defaultPropLastChgTime.n
                                         ELSE run.open,
                                press |-> IF res.phase \notin {3, 5} THEN -1
                                          ELSE IF res.phase # blindCalibrationPhase THEN t
                                          ELSE run.press]
                     ELSE run
           /\ rec' = Collect([rec EXCEPT ![i] = res.dev], devices, deviceFromName, res.target,
                             pendingBegin, pendingConnect)

(* The handle of Device i delivers a snapshot at time t *)
DeviceData(i, data, t) == DeviceEvent(i, data, t, FALSE)

(* The same event, with its OnPropChanged notification on record *)
DeviceDataNoted(i, data, t) == DeviceEvent(i, data, t, TRUE)

(* A dispatcher that never finds a calibration under way *)
CalibrationBusyNever(bbc) == FALSE

(* `else if (blindBeingCalibrated)`: a calibration is under way *)
CalibrationBusy(bbc) == bbc # NoRec

(* case 'calibrate' of processHttpRequest, up to the call of api.set *)
HttpCalibrate(dev) ==
    /\ UNCHANGED <<devices, deviceFromName, rec, pendingConnect, clock, loops, moves>>
    /\ LET device == deviceFromName[dev]
       IN  IF device = NoRec
           THEN /\ last' = invalidRequest("calibrate", dev, "unknown device")
                /\ UNCHANGED <<blindBeingCalibrated, blindCalibrationPhase, pendingBegin, run>>
           ELSE IF rec[device].api # "conn"
           THEN /\ last' = invalidRequest("calibrate", dev, "not connected")
                /\ UNCHANGED <<blindBeingCalibrated, blindCalibrationPhase, pendingBegin, run>>
           ELSE IF rec[device].type # "blind"
           THEN /\ last' = invalidRequest("calibrate", dev, "blind only")
                /\ UNCHANGED <<blindBeingCalibrated, blindCalibrationPhase, pendingBegin, run>>
           ELSE IF CalibrationBusy(blindBeingCalibrated)
           THEN /\ last' = invalidRequest("calibrate", dev, "already calibrating")
                /\ UNCHANGED <<blindBeingCalibrated, blindCalibrationPhase, pendingBegin, run>>
           ELSE /\ pendingBegin[device] < MaxPending
                /\ blindBeingCalibrated' = device
                /\ blindCalibrationPhase' = 0
                /\ pendingBegin' = [pendingBegin EXCEPT ![device] = @ + 1]
                /\ run' = [NoRun EXCEPT !.canon = TRUE]
                /\ last' = Done("calibrate", dev, "pending", TRUE)

(* e.message of the Error that setDevProp throws: the value was rejected   *)
(* by the device (L1562) or api.set itself rejected (L1573)                *)
SetFailure(currValue) ==
    IF currValue = "rejected" THEN "failed to set" ELSE "value rejected"

(* `Could not open ..., calibration aborted. Reason: ${e.message}` *)
CouldNotOpen(reason) == "could not open: " \o reason

(* The set command of beginBlindCalibration settles: the device answers    *)
(* with currValue, or api.set rejects (currValue = "rejected")             *)
BeginSettles(i, currValue) ==
    /\ pendingBegin[i] > 0
    /\ pendingBegin' = [pendingBegin EXCEPT ![i] = @ - 1]
    /\ IF currValue # "rejected" /\ SetSuccess(rec[i], 1, "open", currValue)
       THEN /\ last' = Done("calibrate", rec[i].name, "succ", FALSE)
            /\ UNCHANGED <<blindBeingCalibrated, blindCalibrationPhase, run>>
       ELSE /\ last' = Done("calibrate", rec[i].name, CouldNotOpen(SetFailure(currValue)), FALSE)
            /\ blindBeingCalibrated' = NoRec
            /\ blindCalibrationPhase' = UndefPhase
            /\ run' = NoRun
    /\ rec' = Collect(rec, devices, deviceFromName, blindBeingCalibrated',
                       pendingBegin', pendingConnect)
    /\ UNCHANGED <<devices, deviceFromName, pendingConnect, clock, loops, moves>>

(* case 'connect': connectDevice(device) calls device.api.find() *)
HttpConnect(dev) ==
    /\ UNCHANGED <<rec, devices, deviceFromName, blindBeingCalibrated,
                   blindCalibrationPhase, pendingBegin, clock, run, loops, moves>>
    /\ LET device == deviceFromName[dev]
       IN  IF device = NoRec
           THEN /\ last' = invalidRequest("connect", dev, "unknown device")
                /\ UNCHANGED pendingConnect
           ELSE /\ pendingConnect[device] < MaxPending
                /\ pendingConnect' = [pendingConnect EXCEPT ![device] = @ + 1]
                /\ last' = Done("connect", dev, "pending", FALSE)

(* What the handle does with a call of find(): it resolves to true         *)
(* ("found"), resolves to false ("not found") or rejects; and with a call  *)
(* of connect(): it resolves to true ("connected"), resolves to false      *)
(* ("not connected") or rejects                                            *)
FindResults == {"found", "not found", "rejects"}

ConnectResults == {"connected", "not connected", "rejects"}

(* connectDevice(device) from the settling of device.api.find() on: what   *)
(* its promise settles to ("succ" when fulfilled, else the message of the  *)
(* Error), whether the handle is connected afterwards, and the calls made  *)
(* on the handle.  hasApi: device.api is still there when find resolves.   *)
(* Both assert calls sit in fulfilment handlers, so their AssertionError   *)
(* is not turned into one of the two messages.                             *)
connectDevice(hasApi, find, conn) ==
    IF find = "rejects"
    THEN [resp |-> "device not found", connected |-> FALSE, note |-> "find"]
    ELSE IF find = "not found"
    THEN [resp |-> "assertion failed", connected |-> FALSE, note |-> "find"]
    ELSE IF ~hasApi
    THEN [resp |-> "TypeError", connected |-> FALSE, note |-> "find"]
    ELSE [resp |-> CASE conn = "connected" -> "succ"
                     [] conn = "not connected" -> "assertion failed"
                     [] OTHER -> "failed to connect",
          connected |-> conn = "connected",
          note |-> "find, connect"]

(* The promise of a connect request settles *)
ConnectResolves(i, find, conn) ==
    /\ pendingConnect[i] > 0
    /\ pendingConnect' = [pendingConnect EXCEPT ![i] = @ - 1]
    /\ LET res == connectDevice(rec[i].api # "none", find, conn)
           r1 == IF res.connected THEN [rec EXCEPT ![i].api = "conn"] ELSE rec
       IN  /\ rec' = Collect(r1, devices, deviceFromName, blindBeingCalibrated,
                             pendingBegin, pendingConnect')
           /\ last' = [Done("connect", rec[i].name, res.resp, FALSE) EXCEPT !.note = res.note]
    /\ UNCHANGED <<devices, deviceFromName, blindBeingCalibrated,
                   blindCalibrationPhase, pendingBegin, clock, run, loops, moves>>

(* The promise of connectDevice settles: find and connect resolved, find   *)
(* rejected, or connect rejected                                           *)
ConnectSettles(i, outcome) ==
    ConnectResolves(i, IF outcome = "device not found" THEN "rejects" ELSE "found",
                       IF outcome = "connected" THEN "connected" ELSE "rejects")

---------------------------------------------------------------------------
(* Events of the handle and the reconnect loop *)

(* onDeviceError with a guard that is always true *)
ErrorStartsLoopAlways(d) == TRUE

(* onDeviceError: `if (!device.api) return; if (!device.api.isConnected())` *)
ErrorStartsLoop(d) == d.api # "none" /\ d.api # "conn"

(* An 'error' event of a handle of Device i, the current one or one left   *)
(* behind by undef, at time t                                              *)
DeviceError(i, t) ==
    /\ rec[i].alloc
    /\ t >= clock
    /\ clock' = t
    /\ last' = Notified("error", rec[i].name, "handled", "OnError")
    /\ IF ErrorStartsLoop(rec[i])
       THEN /\ LoopTotal(MaxRecs) < MaxLoops
            /\ loops' = reconnectDevice(loops, i)
       ELSE UNCHANGED loops
    /\ UNCHANGED <<rec, devices, deviceFromName, blindBeingCalibrated,
                   blindCalibrationPhase, pendingBegin, pendingConnect, run, moves>>

(* onDeviceDisconnected: what it forwards upstream *)
onDeviceDisconnected(d) == IF d.api # "none" THEN "OnDisconnected" ELSE "none"

(* A 'disconnected' event of a handle of Device i at time t: the handle    *)
(* is no longer connected                                                  *)
DeviceDisconnected(i, t) ==
    /\ rec[i].alloc
    /\ t >= clock
    /\ clock' = t
    /\ IF rec[i].api # "none"
       THEN /\ LoopTotal(MaxRecs) < MaxLoops
            /\ rec' = [rec EXCEPT ![i].api = "disc"]
            /\ loops' = reconnectDevice(loops, i)
            /\ last' = Notified("disconnected", rec[i].name, "handled",
                                onDeviceDisconnected(rec[i]))
       ELSE /\ last' = Notified("disconnected", rec[i].name, "ignored",
                                onDeviceDisconnected(rec[i]))
            /\ UNCHANGED <<rec, loops>>
    /\ UNCHANGED <<devices, deviceFromName, blindBeingCalibrated,
                   blindCalibrationPhase, pendingBegin, pendingConnect, run, moves>>

(* A loop that returns after a failed attempt *)
LoopAfterAttemptGivesUp(l, i, resp) ==
    IF resp = "succ"
    THEN [l EXCEPT ![i].connecting = @ - 1, ![i].finishing = @ + 1]
    ELSE [l EXCEPT ![i].connecting = @ - 1]

(* reconnectDevice once its connectDevice promise has settled: `connected` *)
(* is set by the fulfilment handler only, a rejection is logged, and the   *)
(* loop sleeps in either case                                              *)
LoopAfterAttempt(l, i, resp) ==
    IF resp = "succ"
    THEN [l EXCEPT ![i].connecting = @ - 1, ![i].finishing = @ + 1]
    ELSE [l EXCEPT ![i].connecting = @ - 1, ![i].retrying = @ + 1]

(* The connectDevice promise of a reconnect loop settles *)
LoopAttemptSettles(i, find, conn) ==
    /\ loops[i].connecting > 0
    /\ LET res == connectDevice(rec[i].api # "none", find, conn)
       IN  /\ rec' = IF res.connected THEN [rec EXCEPT ![i].api = "conn"] ELSE rec
           /\ loops' = LoopAfterAttempt(loops, i, res.resp)
           /\ last' = [Done("reconnect", rec[i].name, res.resp, FALSE) EXCEPT !.note = res.note]
    /\ UNCHANGED <<devices, deviceFromName, blindBeingCalibrated,
                   blindCalibrationPhase, pendingBegin, pendingConnect, clock, run, moves>>

(* sleep(retryInterval) ends after a successful attempt: `connected` is    *)
(* true and the loop returns                                               *)
LoopEnds(i) ==
    /\ loops[i].finishing > 0
    /\ loops' = [loops EXCEPT ![i].finishing = @ - 1]
    /\ rec' = CollectLoops(rec, loops')
    /\ last' = Done("reconnect", rec[i].name, "ended", FALSE)
    /\ UNCHANGED <<devices, deviceFromName, blindBeingCalibrated,
                   blindCalibrationPhase, pendingBegin, pendingConnect, clock, run, moves>>

(* sleep(retryInterval) ends after a failed attempt: the loop calls        *)
(* connectDevice again, whose device.api.find() throws when device.api has *)
(* been deleted; the promise of reconnectDevice is then rejected and       *)
(* nothing handles it                                                      *)
LoopRetries(i) ==
    /\ loops[i].retrying > 0
    /\ IF rec[i].api = "none"
       THEN /\ loops' = [loops EXCEPT ![i].retrying = @ - 1]
            /\ last' = Done("reconnect", rec[i].name, "unhandled rejection", FALSE)
       ELSE /\ loops' = [loops EXCEPT ![i].retrying = @ - 1, ![i].connecting = @ + 1]
            /\ last' = Done("reconnect", rec[i].name, "retrying", FALSE)
    /\ rec' = CollectLoops(rec, loops')
    /\ UNCHANGED <<devices, deviceFromName, blindBeingCalibrated,
                   blindCalibrationPhase, pendingBegin, pendingConnect, clock, run, moves>>

---------------------------------------------------------------------------
(* Timed percentage moves: setBlindPercentage *)

(* `!device.percentage`: undefined, NaN and 0 are falsy *)
PercentageFalsy(d) ==
    d.percentage.k \in {"undef", "nan"} \/ (IsNum(d.percentage) /\ d.percentage.n = 0)

(* The outcome of `return Promise.reject()`: the blind is reported as not  *)
(* calibrated (the promise carries no reason)                              *)
NotCalibrated == "not calibrated"

(* `Failed to set percentage for blind ...: ${e.message}`, where e.message *)
(* of setDevProp names the value that could not be set                     *)
MoveFailed(value, reason) == "failed to set percentage: " \o value \o ": " \o reason

(* setBlindPercentage(device, percentage) up to the first set command: the *)
(* direction it sends and the time it will sleep                           *)
setBlindPercentage(d, percentage) ==
    LET deltaPerc == JsSub(Num(percentage), d.percentage)
        value == IF JsGreater(deltaPerc, 0) THEN "close" ELSE "open"
        fullTime == IF value = "close" THEN d.fullCloseTime ELSE JsNeg(d.fullOpenTime)
        deltaT == JsDiv(JsMul(deltaPerc, fullTime), Num(100))
    IN  [stage |-> "start", value |-> value, wait |-> deltaT, timer |-> UndefNum]

(* sleep(secs): the delay in milliseconds given to setTimeout *)
sleep(secs) == JsMul(secs, Num(1000))

(* A move whose first set command never counts as failed *)
StartFailedNever(d, value, currValue) == FALSE

(* The first set command failed: api.set rejected, or the value the device *)
(* reports is not a success for setDevProp                                 *)
StartFailed(d, value, currValue) ==
    currValue = "rejected" \/ ~SetSuccess(d, 1, value, currValue)

(* case 'set' with prop = 'percentage' of processHttpRequest, up to the    *)
(* call of api.set                                                         *)
HttpSetPercentage(dev, arg) ==
    /\ UNCHANGED <<rec, devices, deviceFromName, blindBeingCalibrated,
                   blindCalibrationPhase, pendingBegin, pendingConnect, clock, run, loops>>
    /\ LET device == deviceFromName[dev]
       IN  IF device = NoRec
           THEN /\ last' = invalidRequest("set", dev, "unknown device")
                /\ UNCHANGED moves
           ELSE IF rec[device].api # "conn"
           THEN /\ last' = invalidRequest("set", dev, "not connected")
                /\ UNCHANGED moves
           ELSE IF rec[device].type # "blind"
           THEN /\ last' = invalidRequest("set", dev, "blind only")
                /\ UNCHANGED moves
           ELSE IF arg < 0 \/ arg > 100
           THEN /\ last' = invalidRequest("set", dev, "not a valid percentage")
                /\ UNCHANGED moves
           ELSE IF PercentageFalsy(rec[device])
           THEN /\ last' = Done("set", dev, NotCalibrated, FALSE)
                /\ UNCHANGED moves
           ELSE /\ moves[device] = NoMove
                /\ moves' = [moves EXCEPT ![device] = setBlindPercentage(rec[device], arg)]
                /\ last' = Done("set", dev, "pending", TRUE)

(* The first set command of a move settles: the device answers with        *)
(* currValue, or api.set rejects (currValue = "rejected"); on success the  *)
(* timer of sleep(deltaT) is armed                                         *)
MoveStartSettles(i, currValue) ==
    /\ moves[i].stage = "start"
    /\ UNCHANGED <<rec, devices, deviceFromName, blindBeingCalibrated,
                   blindCalibrationPhase, pendingBegin, pendingConnect, clock, run, loops>>
    /\ IF StartFailed(rec[i], moves[i].value, currValue)
       THEN /\ moves' = [moves EXCEPT ![i] = NoMove]
            /\ last' = Done("set", rec[i].name, MoveFailed(moves[i].value, SetFailure(currValue)), FALSE)
       ELSE /\ moves' = [moves EXCEPT ![i].stage = "sleep",
                                      ![i].timer = sleep(moves[i].wait)]
            /\ last' = Done("set", rec[i].name, "sleeping", FALSE)

(* The timer of sleep(deltaT) fires: setDevProp(device, 1, 'stop'), which  *)
(* throws when the Device has lost its propNameFromIdx meanwhile           *)
MoveSleepEnds(i) ==
    /\ moves[i].stage = "sleep"
    /\ UNCHANGED <<rec, devices, deviceFromName, blindBeingCalibrated,
                   blindCalibrationPhase, pendingBegin, pendingConnect, clock, run, loops>>
    /\ IF rec[i].hasProps
       THEN /\ moves' = [moves EXCEPT ![i].stage = "stop"]
            /\ last' = Done("set", rec[i].name, "pending", TRUE)
       ELSE /\ moves' = [moves EXCEPT ![i] = NoMove]
            /\ last' = Done("set", rec[i].name, "TypeError", FALSE)

(* The stop command of a move settles *)
MoveStopSettles(i, currValue) ==
    /\ moves[i].stage = "stop"
    /\ UNCHANGED <<rec, devices, deviceFromName, blindBeingCalibrated,
                   blindCalibrationPhase, pendingBegin, pendingConnect, clock, run, loops>>
    /\ moves' = [moves EXCEPT ![i] = NoMove]
    /\ last' = Done("set", rec[i].name,
                    IF currValue # "rejected" /\ SetSuccess(rec[i], 1, "stop", currValue)
                    THEN "succ" ELSE MoveFailed("stop", SetFailure(currValue)), FALSE)

(* Number.parseInt(x) of a number: the integer part of its decimal        *)
(* representation (numbers printed with an exponent are not modelled), NaN *)
(* for undefined, NaN and the infinities                                   *)
JsParseInt(x) ==
    IF ~IsNum(x) THEN NaN
    ELSE IF x.n < 0 THEN Num(-((-x.n) \div x.d)) ELSE Num(x.n \div x.d)

(* A number is truthy unless it is 0 or NaN *)
JsTruthy(x) == x.k = "inf" \/ (IsNum(x) /\ x.n # 0)

(* No res.end() for the request *)
NoResponse == "no response"

(* res.end() without a chunk: the response ends with an empty body *)
EmptyResponse == "empty response"

(* responseFromPromise(res, promise): the text given to res.end for an     *)
(* outcome of the promise; `e => res.end(e.message)` throws when the       *)
(* promise was rejected without a reason, and then nothing is sent         *)
responseFromPromise(outcome) == IF outcome = NotCalibrated THEN NoResponse ELSE outcome

(* A handler that threw, or whose promise was rejected, with nobody to     *)
(* handle it; resp is what was sent to the caller before that              *)
Unhandled(op, dev, resp) ==
    [Done(op, dev, resp, FALSE) EXCEPT !.note = "unhandled rejection"]

(* res.end(chunk) for a number: nothing to write for a falsy chunk, a      *)
(* TypeError for any other number                                          *)
EndThrows(chunk) == JsTruthy(chunk)

(* case 'get' with prop = 'percentage' and no arg of processHttpRequest:   *)
(* res.end(Number.parseInt(device.percentage)), and unless that has thrown *)
(* the call setBlindPercentage(device, arg) with arg = null                *)
HttpGetPercentage(dev) ==
    /\ UNCHANGED <<rec, devices, deviceFromName, blindBeingCalibrated,
                   blindCalibrationPhase, pendingBegin, pendingConnect, clock, run, loops>>
    /\ LET device == deviceFromName[dev]
       IN  IF device = NoRec
           THEN /\ last' = invalidRequest("get", dev, "unknown device")
                /\ UNCHANGED moves
           ELSE IF rec[device].api # "conn"
           THEN /\ last' = invalidRequest("get", dev, "not connected")
                /\ UNCHANGED moves
           ELSE IF rec[device].type # "blind"
           THEN /\ last' = invalidRequest("get", dev, "blind only")
                /\ UNCHANGED moves
           ELSE IF EndThrows(JsParseInt(rec[device].percentage))
           THEN /\ last' = Unhandled("get", dev, NoResponse)
                /\ UNCHANGED moves
           ELSE IF PercentageFalsy(rec[device])
           THEN /\ last' = Unhandled("get", dev, EmptyResponse)
                /\ UNCHANGED moves
           ELSE /\ moves[device] = NoMove
                /\ moves' = [moves EXCEPT ![device] = setBlindPercentage(rec[device], 0)]
                /\ last' = Done("get", dev, EmptyResponse, TRUE)

---------------------------------------------------------------------------
(* The calibration specifications.  The config file is empty, or holds a   *)
(* blind calibrated by an earlier run of the server.                       *)

Min(x, y) == IF x < y THEN x ELSE y

CalibratedCfg ==
    [CfgRec("a", "blind", "ip", "x", "k") EXCEPT
        !.fullCloseTime = Num(4), !.fullOpenTime = Num(2), !.percentage = Num(50),
        !.defaultPropLastValue = "stop", !.defaultPropLastChgTime = Num(0)]

Connect(names) == \E dev \in names : HttpConnect(dev)

ConnectDone ==
    \E i \in RecIds, o \in {"connected", "device not found", "failed to connect"} :
        ConnectSettles(i, o)

Calibrate(names) == \E dev \in names : HttpCalibrate(dev)

BeginDone == \E i \in RecIds, v \in Values \cup {"rejected"} : BeginSettles(i, v)

(* SpecCal: two new devices are defined and connected, then any interleaving *)
(* of calibrate requests, command responses and events of both devices,    *)
(* all within one tick of the clock (SpecTime lets the time pass)          *)

CalCfgLists == {<< >>}

CalDefines == {<<"a", "blind", "ip", "x", "k">>, <<"b", "blind", "ip", "y", "k">>,
               <<"b", "switch", "ip", "y", "k">>}

InitCal == \E cfg \in CalCfgLists : InitWith(cfg)

CalDefine == \E a \in CalDefines : HttpDefine(a[1], a[2], a[3], a[4], a[5])

CalData == \E i \in RecIds, data \in Snapshots : DeviceData(i, data, clock)

NextCal ==
    CalDefine \/ Connect(Names) \/ ConnectDone \/ Calibrate(Names) \/ BeginDone \/ CalData

SpecCal == InitCal /\ [][NextCal]_vars

(* SpecTime: one blind is defined and connected, then any interleaving of  *)
(* calibrate requests, command responses and events of the blind, over a   *)
(* span of time long enough for a whole calibration                        *)

TimeCfgLists == {<< >>, <<CalibratedCfg>>}

InitTime == \E cfg \in TimeCfgLists : InitWith(cfg)

TimeDefine == HttpDefine("a", "blind", "ip", "x", "k")

TimeData == \E i \in RecIds, data \in Snapshots, t \in clock..Min(clock + MaxStep, MaxTime) :
                DeviceData(i, data, t)

NextTime ==
    TimeDefine \/ Connect({"a"}) \/ ConnectDone \/ Calibrate({"a"}) \/ BeginDone \/ TimeData

SpecTime == InitTime /\ [][NextTime]_vars

(* SpecRun: the blind of SpecTime once it is defined and connected (new,   *)
(* or calibrated by an earlier run of the server), then any interleaving   *)
(* of calibrate requests, command responses and events of the blind        *)

Ready(d) == [d EXCEPT !.api = "conn", !.hasProps = TRUE]

ReadyBlinds == {CfgRec("a", "blind", "ip", "x", "k"), CalibratedCfg}

(* Blinds the config file describes as calibrated; the second has travel   *)
(* times that do not divide 100                                            *)
CalibratedCfgs ==
    {CalibratedCfg,
     [CalibratedCfg EXCEPT !.fullCloseTime = Num(3), !.fullOpenTime = Num(7),
                           !.percentage = Num(0)]}

InitRun ==
    \E d \in ReadyBlinds \cup CalibratedCfgs :
        /\ rec = [i \in RecIds |-> IF i = 1
                                   THEN Ready(d)
                                   ELSE BlankRec]
        /\ devices = IF d \in CalibratedCfgs THEN <<1>> ELSE << >>
        /\ deviceFromName = [n \in Names |-> IF n = "a" THEN 1 ELSE NoRec]
        /\ blindBeingCalibrated = NoRec
        /\ blindCalibrationPhase = UndefPhase
        /\ pendingBegin = [i \in RecIds |-> 0]
        /\ pendingConnect = [i \in RecIds |-> 0]
        /\ clock = 0
        /\ run = NoRun
        /\ last = Done("connect", "a", "succ", FALSE)
        /\ loops = [i \in RecIds |-> NoLoops]
        /\ moves = [i \in RecIds |-> NoMove]

NextRun == Calibrate({"a"}) \/ BeginDone \/ TimeData

SpecRun == InitRun /\ [][NextRun]_vars

(* SpecPair: the two devices of SpecCal once both are defined and          *)
(* connected (both new, or both from the config file with the blind a      *)
(* calibrated by an earlier run), then any interleaving of calibrate       *)
(* requests, command responses and events of both devices, all within one  *)
(* tick of the clock                                                       *)

InitPair ==
    \E d \in ReadyBlinds, t \in Types :
        /\ rec = [i \in RecIds |->
                     IF i = 1 THEN Ready(d)
                     ELSE IF i = 2 THEN Ready(CfgRec("b", t, "ip", "y", "k"))
                     ELSE BlankRec]
        /\ devices = IF d = CalibratedCfg THEN <<1, 2>> ELSE << >>
        /\ deviceFromName = [n \in Names |-> IF n = "a" THEN 1 ELSE 2]
        /\ blindBeingCalibrated = NoRec
        /\ blindCalibrationPhase = UndefPhase
        /\ pendingBegin = [i \in RecIds |-> 0]
        /\ pendingConnect = [i \in RecIds |-> 0]
        /\ clock = 0
        /\ run = NoRun
        /\ last = Done("connect", "b", "succ", FALSE)
        /\ loops = [i \in RecIds |-> NoLoops]
        /\ moves = [i \in RecIds |-> NoMove]

NextPair == Calibrate(Names) \/ BeginDone \/ CalData

SpecPair == InitPair /\ [][NextPair]_vars

---------------------------------------------------------------------------
(* Properties of the registry *)

HasHandle(i) == rec[i].api # "none"

Known(i) == i \in Range(devices) \/ \E n \in Names : deviceFromName[n] = i

InList(n) == \E j \in DOMAIN devices : rec[devices[j]].name = n

(* C1: after every completed registry operation, every Device has a handle *)
(* if and only if deviceFromName maps its current name to it.              *)
C1_HandleIffInLiveMap ==
    \A i \in RecIds :
        rec[i].alloc => (HasHandle(i) <=> deviceFromName[rec[i].name] = i)

(* C2: no two Devices known to the registry (in the devices array or in    *)
(* deviceFromName) carry the same name.                                    *)
C2_NamesUnique ==
    \A i, j \in RecIds :
        (Known(i) /\ Known(j) /\ i # j) => rec[i].name # rec[j].name

DefinePost(dev, type, kd, value, key) ==
    LET i == deviceFromName[dev]
    IN  /\ i # NoRec
        /\ rec[i].name = dev
        /\ rec[i].type = type
        /\ rec[i][kd] = value
        /\ rec[i].key = key
        /\ HasHandle(i)
        /\ i \in Range(devices)

(* C3: after define(name, type, kind, value, key) has run, deviceFromName  *)
(* has an entry under name whose Device has exactly that name, type,       *)
(* address and key and holds a handle, and that Device is in devices.      *)
C3_DefineRegistersDevice ==
    [][\A dev \in Names, t \in Types, kd \in Kinds, a \in Addrs, ky \in Keys :
          (HttpDefine(dev, t, kd, a, ky) /\ deviceFromName[dev] = NoRec)
              => DefinePost(dev, t, kd, a, ky)']_vars

(* C4: define(name, ...) when no Device named name exists but a Device     *)
(* with the same type, address and key exists under another name renames   *)
(* that Device to name, creates no Device, and initialises it under name.  *)
C4_DefineRenamesMatch ==
    [][\A dev \in Names, t \in Types, kd \in Kinds, a \in Addrs, ky \in Keys :
          LET m == ArgsLoop(rec, devices, t, kd, a, ky)
          IN  (/\ HttpDefine(dev, t, kd, a, ky)
               /\ deviceFromName[dev] = NoRec
               /\ ~InList(dev)
               /\ m # NoRec)
                  => /\ rec'[m].name = dev
                     /\ deviceFromName'[dev] = m
                     /\ rec'[m].api # "none"
                     /\ devices' = devices
                     /\ \A i \in RecIds : rec'[i].alloc = rec[i].alloc]_vars

(* C5: delete on a Device that still has a handle fails with an error and  *)
(* leaves devices and deviceFromName unchanged.                            *)
C5_DeleteWithHandleFails ==
    [][\A dev \in Names :
          (/\ HttpDelete(dev)
           /\ deviceFromName[dev] # NoRec
           /\ HasHandle(deviceFromName[dev]))
              => /\ last'.resp # "succ"
                 /\ UNCHANGED <<devices, deviceFromName>>]_vars

Without(s, i) == SelectSeq(s, LAMBDA x : x # i)

(* C6: for a Device d of the devices array, undef(d) followed by delete(d) *)
(* succeeds; afterwards d is not in devices and every other Device of the  *)
(* array is still in it, unchanged.                                        *)
C6_UndefThenDelete ==
    [][\A dev \in Names :
          (/\ HttpDelete(dev)
           /\ last = Done("undef", dev, "succ", FALSE)
           /\ InList(dev))
              => LET d == NameLoop(rec, devices, dev)
                 IN  /\ last'.resp = "succ"
                     /\ devices' = Without(devices, d)
                     /\ \A i \in Range(devices) \ {d} : rec'[i] = rec[i]]_vars

(* C7 as stated: rename(oldName, newName) fails with a not-found error and *)
(* changes nothing when no initialised Device is registered under oldName; *)
(* otherwise, when it returns, deviceFromName has no entry under oldName,  *)
(* maps newName to the Device, and the Device's name is newName.           *)
C7_RenameAsStated ==
    [][\A dev \in Names, arg \in Names :
          HttpRename(dev, arg) =>
              LET d == deviceFromName[dev]
              IN  IF d = NoRec
                  THEN /\ last'.resp = "unknown device"
                       /\ UNCHANGED <<rec, devices, deviceFromName>>
                  ELSE /\ last'.resp = "succ"
                       /\ deviceFromName'[dev] = NoRec
                       /\ deviceFromName'[arg] = d
                       /\ rec'[d].name = arg]_vars

(* C7 amended: as above, but deviceFromName has no entry under oldName     *)
(* only when newName differs from oldName; the step is atomic, so exactly  *)
(* one of the two keys maps to the Device in every state after it.         *)
C7_RenameAtomic ==
    [][\A dev \in Names, arg \in Names :
          HttpRename(dev, arg) =>
              LET d == deviceFromName[dev]
              IN  IF d = NoRec
                  THEN /\ last'.resp = "unknown device"
                       /\ UNCHANGED <<rec, devices, deviceFromName>>
                  ELSE /\ last'.resp = "succ"
                       /\ (arg # dev => deviceFromName'[dev] = NoRec)
                       /\ deviceFromName'[arg] = d
                       /\ rec'[d].name = arg
                       /\ Cardinality({n \in {dev, arg} : deviceFromName'[n] = d}) = 1]_vars

C7_Witness ==
    /\ last.op = "rename"
    /\ last.resp = "succ"
    /\ deviceFromName[last.dev] = NoRec
    /\ \E n \in Names : deviceFromName[n] # NoRec /\ rec[deviceFromName[n]].name = n

---------------------------------------------------------------------------
(* Properties of the calibration *)

StopEvent == [n |-> 1, idx |-> 1, value |-> "stop"]

ErrorAnswers == {"unknown device", "not connected", "blind only", "already calibrating"}

ConnectedBlind(i) == i # NoRec /\ rec[i].api = "conn" /\ rec[i].type = "blind"

(* C8 as stated: while some Device is the calibration target, a calibrate  *)
(* request for any defined Device fails with the busy error, sends no      *)
(* command to a device, and leaves the target and the phase unchanged.     *)
C8_BusyForAnyDevice ==
    [][\A dev \in Names :
          (/\ HttpCalibrate(dev)
           /\ blindBeingCalibrated # NoRec
           /\ deviceFromName[dev] # NoRec)
              => /\ last'.resp = "already calibrating"
                 /\ ~last'.cmd
                 /\ UNCHANGED <<blindBeingCalibrated, blindCalibrationPhase>>]_vars

(* C8 amended: while some Device is the calibration target, every calibrate *)
(* request fails, sends no command to a device and leaves the target and    *)
(* the phase unchanged; it fails with the busy error when it names a        *)
(* connected blind, and with the error of the earlier check when it names   *)
(* an unknown Device, a Device that is not connected, or a non-blind.       *)
C8_BusyRejected ==
    [][\A dev \in Names :
          (HttpCalibrate(dev) /\ blindBeingCalibrated # NoRec)
              => /\ last'.resp \in ErrorAnswers
                 /\ ConnectedBlind(deviceFromName[dev])
                        <=> last'.resp = "already calibrating"
                 /\ ~last'.cmd
                 /\ UNCHANGED <<blindBeingCalibrated, blindCalibrationPhase,
                                pendingBegin, rec>>]_vars

C8_Witness ==
    /\ last.op = "calibrate"
    /\ last.resp = "already calibrating"
    /\ blindBeingCalibrated # NoRec
    /\ deviceFromName[last.dev] \notin {NoRec, blindBeingCalibrated}
    /\ blindCalibrationPhase > 0

FirstEver(i) == rec[i].fullCloseTime.k = "undef" \/ rec[i].fullOpenTime.k = "undef"

(* C9: when the target has received open, stop, close, stop, open at times *)
(* t0 < t1 < t2 < t3 < t4 and now receives stop at t5 > t4, then on a      *)
(* first-ever calibration its fullCloseTime is t3 - t2 and its             *)
(* fullOpenTime is t5 - t4 after the event, and on a previously calibrated *)
(* Device the phase is 6 after the event.                                  *)
C9_CanonicalTimes ==
    [][\A i \in RecIds, t \in 0..MaxTime :
          (/\ DeviceData(i, StopEvent, t)
           /\ blindBeingCalibrated = i
           /\ blindCalibrationPhase = 5
           /\ run.canon
           /\ t > clock)
              => IF FirstEver(i)
                 THEN /\ rec'[i].fullCloseTime = Num(run.close)
                      /\ rec'[i].fullOpenTime = Num(t - rec[i].defaultPropLastChgTime.n)
                 ELSE blindCalibrationPhase' = 6]_vars

(* C10: on a first-ever calibration, after the stop event of phase 5 has   *)
(* gone through onDeviceData (calibration step, then percentage update),   *)
(* the percentage is 0 and the calibration target and phase are cleared.   *)
C10_CommitZeroPercent ==
    [][\A i \in RecIds, t \in 0..MaxTime :
          (/\ DeviceData(i, StopEvent, t)
           /\ blindBeingCalibrated = i
           /\ rec[i].type = "blind"
           /\ blindCalibrationPhase = 5
           /\ FirstEver(i))
              => /\ rec'[i].percentage = Num(0)
                 /\ blindBeingCalibrated' = NoRec
                 /\ blindCalibrationPhase' = UndefPhase]_vars

DefaultEvent(v) == [n |-> 1, idx |-> 1, value |-> v]

Targeted(i) == blindBeingCalibrated = i /\ rec[i].type = "blind"

(* C11: at phase 6 of a previously calibrated Device, an open event makes  *)
(* the times measured in this run (at its phase-3 and phase-5 stop events) *)
(* the Device's fullCloseTime and fullOpenTime and sets percentage to 0;   *)
(* any other value leaves fullCloseTime and fullOpenTime unchanged.        *)
C11_AcceptCommitsMeasured ==
    [][\A i \in RecIds, v \in Values :
          (/\ Targeted(i)
           /\ blindCalibrationPhase = 6
           /\ DeviceData(i, DefaultEvent(v), clock'))
              => IF v = "open"
                 THEN /\ rec'[i].fullCloseTime = Num(run.close)
                      /\ rec'[i].fullOpenTime = Num(run.open)
                      /\ rec'[i].percentage = Num(0)
                 ELSE /\ rec'[i].fullCloseTime = rec[i].fullCloseTime
                      /\ rec'[i].fullOpenTime = rec[i].fullOpenTime]_vars

(* C12: after the event of phase 6 has been processed, whatever its value, *)
(* the calibration target and the phase are both cleared (so that a later  *)
(* calibrate request for a blind is accepted).                             *)
C12_Phase6Clears ==
    [][\A i \in RecIds, v \in Values :
          (/\ Targeted(i)
           /\ blindCalibrationPhase = 6
           /\ DeviceData(i, DefaultEvent(v), clock'))
              => /\ blindBeingCalibrated' = NoRec
                 /\ blindCalibrationPhase' = UndefPhase]_vars

AcceptsCommands(i) == deviceFromName[rec[i].name] = i /\ rec[i].api = "conn"

(* C14: at any of the phases 0 to 5, a default-property event of the       *)
(* target whose value is neither the expected one nor the repeated         *)
(* direction clears the target and the phase, leaves the Device's          *)
(* fullCloseTime, fullOpenTime and handle as they were, and leaves the     *)
(* Device known to the dispatcher and connected, so that get and set       *)
(* commands for it are still accepted.                                     *)
C14_AbortClears ==
    [][\A i \in RecIds, v \in Values :
          (/\ Targeted(i)
           /\ blindCalibrationPhase \in 0..5
           /\ v \notin {Expected(blindCalibrationPhase), Repeated(blindCalibrationPhase)}
           /\ DeviceData(i, DefaultEvent(v), clock'))
              => /\ blindBeingCalibrated' = NoRec
                 /\ blindCalibrationPhase' = UndefPhase
                 /\ rec'[i].fullCloseTime = rec[i].fullCloseTime
                 /\ rec'[i].fullOpenTime = rec[i].fullOpenTime
                 /\ rec'[i].api = rec[i].api
                 /\ AcceptsCommands(i)']_vars

C14_Witness ==
    \E i \in RecIds :
        /\ pendingBegin[i] > 0
        /\ blindBeingCalibrated = NoRec
        /\ last.op = "data"
        /\ last.resp = "aborted"
        /\ rec[i].fullCloseTime = Num(4)
        /\ rec[i].defaultPropLastValue = "close"
        /\ AcceptsCommands(i)

(* C15: at phase 1, 3 or 5 an event of the target that repeats the         *)
(* direction just started (open, close, open) leaves the phase, the        *)
(* default property's last-change time, fullCloseTime and fullOpenTime     *)
(* (indeed the whole Device) unchanged, however often it is repeated; so   *)
(* the time measured at the stop event that follows, at phase 3 and at     *)
(* phase 5, is counted from the first press.                               *)
C15_ReabsorbKeepsStart ==
    [][\A i \in RecIds :
          /\ (/\ Targeted(i)
               /\ blindCalibrationPhase \in {1, 3, 5}
               /\ DeviceData(i, DefaultEvent(Repeated(blindCalibrationPhase)), clock'))
                  => /\ blindCalibrationPhase' = blindCalibrationPhase
                     /\ blindBeingCalibrated' = i
                     /\ rec'[i] = rec[i]
                     /\ run'.press = run.press
          /\ (/\ Targeted(i)
               /\ blindCalibrationPhase = 3
               /\ DeviceData(i, StopEvent, clock'))
                  => run'.close = clock' - run.press
          /\ (/\ Targeted(i)
               /\ blindCalibrationPhase = 5
               /\ DeviceData(i, StopEvent, clock'))
                  => /\ run'.open = clock' - run.press \/ run' = NoRun
                     /\ FirstEver(i) => rec'[i].fullOpenTime = Num(clock' - run.press)]_vars

C15_Witness ==
    /\ blindCalibrationPhase = 5
    /\ blindBeingCalibrated # NoRec
    /\ last.op = "data"
    /\ last.resp = "none"
    /\ clock > run.press
    /\ rec[blindBeingCalibrated].defaultPropLastChgTime = Num(run.press)

(* C16: an accepted calibrate request sets the calibration target to the   *)
(* device and the phase to 0 and issues the set command (index 1, open)    *)
(* in the same step; when that set command fails (the device reports a     *)
(* value that is not a success, or api.set rejects), target and phase are  *)
(* both cleared and the caller is answered with an error that carries the  *)
(* reason of the failure.  The set command fails when api.set rejects or   *)
(* when the blind answers with a value other than open, a stop of a blind  *)
(* that was last seen closing excepted.                                    *)
C16_BeginSetsThenClears ==
    [][/\ \A dev \in Names :
             (HttpCalibrate(dev) /\ last'.cmd)
                 => /\ blindBeingCalibrated' = deviceFromName[dev]
                    /\ blindBeingCalibrated' # NoRec
                    /\ blindCalibrationPhase' = 0
                    /\ pendingBegin'[deviceFromName[dev]] = pendingBegin[deviceFromName[dev]] + 1
       /\ \A dev \in Names :
             (HttpCalibrate(dev) /\ ~last'.cmd)
                 => UNCHANGED <<blindBeingCalibrated, blindCalibrationPhase, pendingBegin>>
       /\ \A i \in RecIds, v \in Values \cup {"rejected"} :
             (/\ pendingBegin[i] > 0
              /\ \/ v = "rejected"
                 \/ v = "close"
                 \/ v = "stop" /\ rec[i].defaultPropLastValue # "close"
              /\ BeginSettles(i, v))
                 => /\ blindBeingCalibrated' = NoRec
                    /\ blindCalibrationPhase' = UndefPhase
                    /\ last'.op = "calibrate"
                    /\ last'.dev = rec[i].name
                    /\ last'.resp = CouldNotOpen(IF v = "rejected" THEN "failed to set"
                                                                  ELSE "value rejected")]_vars

C16_Witness ==
    /\ last.op = "calibrate"
    /\ last.resp = CouldNotOpen("value rejected")
    /\ blindBeingCalibrated = NoRec
    /\ blindCalibrationPhase = UndefPhase
    /\ \A i \in RecIds : pendingBegin[i] = 0

PercentageSet(d) == d.percentage.k # "undef"

(* percentage is a number p with 0 <= p <= 100 *)
InRange(p) == IsNum(p) /\ 0 <= p.n /\ p.n <= 100 * p.d

(* C17: in every reachable state, a Device whose percentage is set has     *)
(* 0 <= percentage <= 100, after any sequence of calibrations and events   *)
(* of the default property, stop events later than the full travel time    *)
(* included.                                                               *)
C17_PercentageInRange ==
    \A i \in RecIds : PercentageSet(rec[i]) => InRange(rec[i].percentage)

(* C18: starting from a state where no Device is calibrated, in every      *)
(* reachable state a Device's percentage is set only if both its           *)
(* fullCloseTime and its fullOpenTime are set.                             *)
C18_PercentageNeedsTimes ==
    (devices = << >>) =>
        \A i \in RecIds :
            PercentageSet(rec[i])
                => rec[i].fullCloseTime.k # "undef" /\ rec[i].fullOpenTime.k # "undef"

(* A blind with a committed calibration: both travel times are positive    *)
(* numbers and the percentage is a number                                  *)
Calibrated(d) ==
    /\ d.type = "blind"
    /\ IsNum(d.fullCloseTime) /\ d.fullCloseTime.n > 0
    /\ IsNum(d.fullOpenTime) /\ d.fullOpenTime.n > 0
    /\ IsNum(d.percentage)

(* x is the number n / d (d > 0) *)
RatEq(x, n, d) == IsNum(x) /\ x.n * d = n * x.d

(* x <= y for numbers x and y *)
RatLeq(x, y) == IsNum(x) /\ IsNum(y) /\ x.n * y.d <= y.n * x.d

(* C19: on a stop event of a calibrated blind, dT after the last change of *)
(* the default property: when the previous value was close, the percentage *)
(* becomes min(100, old + 100 * dT / fullCloseTime); when it was open, it  *)
(* becomes max(0, old - 100 * dT / fullOpenTime); closing never decreases  *)
(* and opening never increases the percentage.                             *)
C19_PercentageStep ==
    [][\A i \in RecIds :
          (/\ Calibrated(rec[i])
           /\ rec[i].defaultPropLastValue \in {"close", "open"}
           /\ DeviceData(i, StopEvent, clock'))
              => LET old == rec[i].percentage
                     new == rec'[i].percentage
                     dT == clock' - rec[i].defaultPropLastChgTime.n
                     full == IF rec[i].defaultPropLastValue = "close"
                             THEN rec[i].fullCloseTime ELSE rec[i].fullOpenTime
                     (* 100 * dT / full = part / den,  old = whole / den *)
                     den == old.d * full.n
                     part == 100 * dT * full.d * old.d
                     whole == old.n * full.n
                 IN  IF rec[i].defaultPropLastValue = "close"
                     THEN /\ IF whole + part > 100 * den
                             THEN new = Num(100)
                             ELSE RatEq(new, whole + part, den)
                          /\ RatLeq(old, new)
                     ELSE /\ IF whole - part < 0
                             THEN new = Num(0)
                             ELSE RatEq(new, whole - part, den)
                          /\ RatLeq(new, old)]_vars

C19_Witness ==
    \E i \in RecIds :
        /\ Calibrated(rec[i])
        /\ last.op = "data"
        /\ rec[i].defaultPropLastValue = "stop"
        /\ rec[i].defaultPropLastChgTime = Num(clock)
        /\ rec[i].percentage = Num(25)
        /\ clock >= 3

(* The event v of the calibration target i commits a calibration: the stop *)
(* of phase 5 on a first-ever calibration, or the open of phase 6          *)
CommitEvent(i, v) ==
    /\ Targeted(i)
    /\ \/ blindCalibrationPhase = 5 /\ v = "stop" /\ FirstEver(i)
       \/ blindCalibrationPhase = 6 /\ v = "open"

(* C20: a Device's percentage changes only while an event of its default   *)
(* property is processed that (a) commits a calibration, or (b) has the    *)
(* value stop while the previous value of the default property was not     *)
(* stop and the percentage is set (the Device has a committed              *)
(* calibration).  A commit by an open event sets the percentage to 0 (the  *)
(* committing stop event is the subject of C10).  So requests, command     *)
(* responses, stop after stop, open and close events outside a commit, and *)
(* events of a Device without a committed calibration leave it unchanged.  *)
C20_PercentageFrame ==
    [][\A i \in RecIds :
          rec'[i].percentage # rec[i].percentage
              => \E v \in Values :
                    /\ DeviceData(i, DefaultEvent(v), clock')
                    /\ \/ CommitEvent(i, v)
                       \/ /\ v = "stop"
                          /\ rec[i].defaultPropLastValue # "stop"
                          /\ PercentageSet(rec[i])
                    /\ (CommitEvent(i, v) /\ v = "open") => rec'[i].percentage = Num(0)]_vars

C20_Witness ==
    \E i \in RecIds :
        /\ last.op = "data"
        /\ rec[i].percentage = Num(100)
        /\ rec[i].defaultPropLastValue = "stop"
        /\ rec[i].defaultPropLastChgTime = Num(clock)
        /\ blindBeingCalibrated = NoRec

(* SpecMove: a connected blind, not calibrated or calibrated through the   *)
(* config file, then any interleaving of set requests for the percentage,  *)
(* the responses to their commands, their timers, events of the blind at   *)
(* one instant of the clock, and undef requests                            *)

PercArgs == {0, 50, 100, 150}

MoveBlinds ==
    ReadyBlinds \cup CalibratedCfgs
    \cup {[CalibratedCfg EXCEPT !.percentage = Num(100)],
          [CalibratedCfg EXCEPT !.fullCloseTime = Num(3), !.fullOpenTime = Num(7),
                                !.percentage = Num(25)]}

InitMove ==
    \E d \in MoveBlinds :
        /\ rec = [i \in RecIds |-> IF i = 1 THEN Ready(d) ELSE BlankRec]
        /\ devices = IF PercentageSet(d) THEN <<1>> ELSE << >>
        /\ deviceFromName = [n \in Names |-> IF n = "a" THEN 1 ELSE NoRec]
        /\ blindBeingCalibrated = NoRec
        /\ blindCalibrationPhase = UndefPhase
        /\ pendingBegin = [i \in RecIds |-> 0]
        /\ pendingConnect = [i \in RecIds |-> 0]
        /\ clock = 0
        /\ run = NoRun
        /\ last = Done("connect", "a", "succ", FALSE)
        /\ loops = [i \in RecIds |-> NoLoops]
        /\ moves = [i \in RecIds |-> NoMove]

SetPercentage == \E dev \in Names, arg \in PercArgs : HttpSetPercentage(dev, arg)

MoveStartDone == \E i \in RecIds, v \in Values \cup {"rejected"} : MoveStartSettles(i, v)

MoveSleepDone == \E i \in RecIds : MoveSleepEnds(i)

MoveStopDone == \E i \in RecIds, v \in Values \cup {"rejected"} : MoveStopSettles(i, v)

NextMove ==
    SetPercentage \/ MoveStartDone \/ MoveSleepDone \/ MoveStopDone \/ CalData \/ Undef

SpecMove == InitMove /\ [][NextMove]_vars

---------------------------------------------------------------------------
(* SpecNet: the switch a, listed in the config file or not, once it is     *)
(* defined, then any interleaving of connect, undef and define requests    *)
(* for it, the settling of its connect promises, error and disconnected    *)
(* events of its handles, and the steps of its reconnect loops, all at one *)
(* instant of the clock                                                    *)

NetRec == CfgRec("a", "switch", "ip", "x", "k")

InitNet ==
    \E listed \in BOOLEAN :
        /\ rec = [i \in RecIds |->
                     IF i = 1 THEN [NetRec EXCEPT !.api = "disc", !.hasProps = TRUE]
                     ELSE BlankRec]
        /\ devices = IF listed THEN <<1>> ELSE << >>
        /\ deviceFromName = [n \in Names |-> IF n = "a" THEN 1 ELSE NoRec]
        /\ blindBeingCalibrated = NoRec
        /\ blindCalibrationPhase = UndefPhase
        /\ pendingBegin = [i \in RecIds |-> 0]
        /\ pendingConnect = [i \in RecIds |-> 0]
        /\ clock = 0
        /\ run = NoRun
        /\ last = Done("define", "a", "succ", FALSE)
        /\ loops = [i \in RecIds |-> NoLoops]
        /\ moves = [i \in RecIds |-> NoMove]

NetDefine == HttpDefine("a", "switch", "ip", "x", "k")

NetConnect == HttpConnect("a")

NetConnectDone ==
    \E i \in RecIds, find \in FindResults, conn \in ConnectResults : ConnectResolves(i, find, conn)

NetUndef == HttpUndef("a")

ErrorEvent == \E i \in RecIds : DeviceError(i, clock)

DisconnectedEvent == \E i \in RecIds : DeviceDisconnected(i, clock)

LoopAttempt ==
    \E i \in RecIds, find \in FindResults, conn \in ConnectResults :
        LoopAttemptSettles(i, find, conn)

LoopEnd == \E i \in RecIds : LoopEnds(i)

LoopRetry == \E i \in RecIds : LoopRetries(i)

NextNet ==
    \/ NetDefine \/ NetConnect \/ NetConnectDone \/ NetUndef
    \/ ErrorEvent \/ DisconnectedEvent \/ LoopAttempt \/ LoopEnd \/ LoopRetry

SpecNet == InitNet /\ [][NextNet]_vars

---------------------------------------------------------------------------
(* SpecLoop: the device of SpecNet with its handle kept (no undef), connect *)
(* requests, error and disconnected events at increasing times up to       *)
(* MaxTime, and the steps of its reconnect loops.  Promises settle and     *)
(* timers fire (weak fairness of the loop steps); the handle accepts a     *)
(* connection attempt of a loop again and again (strong fairness of the    *)
(* successful attempt, which is disabled while the loops sleep).           *)

ErrorLater == \E i \in RecIds : clock < MaxTime /\ DeviceError(i, clock + 1)

DisconnectedLater == \E i \in RecIds : clock < MaxTime /\ DeviceDisconnected(i, clock + 1)

LoopConnects == \E i \in RecIds : LoopAttemptSettles(i, "found", "connected")

NextLoop ==
    \/ NetConnect \/ NetConnectDone \/ ErrorLater \/ DisconnectedLater
    \/ LoopAttempt \/ LoopEnd \/ LoopRetry

SpecLoop ==
    /\ InitNet /\ [][NextLoop]_vars
    /\ WF_vars(LoopAttempt) /\ WF_vars(LoopEnd) /\ WF_vars(LoopRetry)
    /\ SF_vars(LoopConnects)

---------------------------------------------------------------------------
(* SpecHttp: the blind of SpecMove, or a blind whose saved percentage lies *)
(* between 0 and 1; requests to set and to get the percentage, the steps   *)
(* of the moves they start, events and undef                               *)

HttpBlinds == MoveBlinds \cup {[CalibratedCfg EXCEPT !.percentage = Rat(1, 2)]}

InitHttp ==
    \E d \in HttpBlinds :
        /\ rec = [i \in RecIds |-> IF i = 1 THEN Ready(d) ELSE BlankRec]
        /\ devices = IF PercentageSet(d) THEN <<1>> ELSE << >>
        /\ deviceFromName = [n \in Names |-> IF n = "a" THEN 1 ELSE NoRec]
        /\ blindBeingCalibrated = NoRec
        /\ blindCalibrationPhase = UndefPhase
        /\ pendingBegin = [i \in RecIds |-> 0]
        /\ pendingConnect = [i \in RecIds |-> 0]
        /\ clock = 0
        /\ run = NoRun
        /\ last = Done("connect", "a", "succ", FALSE)
        /\ loops = [i \in RecIds |-> NoLoops]
        /\ moves = [i \in RecIds |-> NoMove]

GetPercentage == \E dev \in Names : HttpGetPercentage(dev)

NextHttp ==
    \/ SetPercentage \/ GetPercentage
    \/ MoveStartDone \/ MoveSleepDone \/ MoveStopDone \/ CalData \/ Undef

SpecHttp == InitHttp /\ [][NextHttp]_vars

---------------------------------------------------------------------------
(* Events of a handle whose device was undefined *)

(* deinitDevice leaves the listeners of initDevice on the TuyAPI object, so *)
(* a snapshot it still delivers runs onDeviceData(device, data) on a Device *)
(* without propNameFromIdx: a snapshot of several properties returns at    *)
(* once, any other throws at `device.propNameFromIdx.get`                  *)
StaleData(i, data, t) ==
    /\ NetUnchanged
    /\ rec[i].alloc
    /\ rec[i].api = "none"
    /\ ~rec[i].hasProps
    /\ t >= clock
    /\ clock' = t
    /\ last' = Notified("stale data", rec[i].name,
                        IF data.n # 1 THEN "succ" ELSE "TypeError", "none")
    /\ UNCHANGED <<rec, devices, deviceFromName, blindBeingCalibrated,
                   blindCalibrationPhase, pendingBegin, pendingConnect, run>>

(* SpecData: one connected device a (a new or a calibrated blind, or a     *)
(* switch); calibrate requests, command responses, events with their       *)
(* notifications on record, undef, and events of the handle left behind    *)

DataDevices == ReadyBlinds \cup {CfgRec("a", "switch", "ip", "x", "k")}

InitData ==
    \E d \in DataDevices :
        /\ rec = [i \in RecIds |-> IF i = 1 THEN Ready(d) ELSE BlankRec]
        /\ devices = IF d = CalibratedCfg THEN <<1>> ELSE << >>
        /\ deviceFromName = [n \in Names |-> IF n = "a" THEN 1 ELSE NoRec]
        /\ blindBeingCalibrated = NoRec
        /\ blindCalibrationPhase = UndefPhase
        /\ pendingBegin = [i \in RecIds |-> 0]
        /\ pendingConnect = [i \in RecIds |-> 0]
        /\ clock = 0
        /\ run = NoRun
        /\ last = Done("connect", "a", "succ", FALSE)
        /\ loops = [i \in RecIds |-> NoLoops]
        /\ moves = [i \in RecIds |-> NoMove]

NotedData ==
    \E i \in RecIds, data \in Snapshots, t \in clock..Min(clock + 1, MaxStep) :
        DeviceDataNoted(i, data, t)

StaleEvent ==
    \E i \in RecIds, data \in Snapshots, t \in clock..Min(clock + 1, MaxStep) :
        StaleData(i, data, t)

DataUndef == HttpUndef("a")

NextData ==
    Calibrate({"a"}) \/ BeginDone \/ NotedData \/ DataUndef \/ StaleEvent

SpecData == InitData /\ [][NextData]_vars

---------------------------------------------------------------------------
(* Properties of the event pipeline *)

(* C21: when an event of the default property is processed, the elapsed    *)
(* time that the calibration step and the percentage update use is the     *)
(* time of the event minus the last-change time as it was before the       *)
(* event; after both have run, the last value and the last-change time     *)
(* become the value and the time of the event when the value differs from  *)
(* the last value, and both stay as they were when it is equal.            *)
C21_ElapsedBeforeStamp ==
    [][\A i \in RecIds, v \in Values :
          DeviceData(i, DefaultEvent(v), clock')
              => LET old == rec[i]
                     new == rec'[i]
                     elapsed == JsSub(Num(clock'), old.defaultPropLastChgTime)
                 IN  /\ (CommitEvent(i, v) /\ v = "stop")
                            => new.fullOpenTime = elapsed
                     /\ (/\ old.type = "blind" /\ PercentageSet(old)
                          /\ v = "stop" /\ old.defaultPropLastValue # "stop"
                          /\ ~CommitEvent(i, v))
                            => new.percentage = updateBlindPercentage(old, clock').percentage
                     /\ IF v # old.defaultPropLastValue
                        THEN /\ new.defaultPropLastValue = v
                             /\ new.defaultPropLastChgTime = Num(clock')
                        ELSE /\ new.defaultPropLastValue = old.defaultPropLastValue
                             /\ new.defaultPropLastChgTime = old.defaultPropLastChgTime]_vars

C21_Witness ==
    \E i \in RecIds :
        /\ last.op = "data"
        /\ rec[i].fullCloseTime = Num(4)
        /\ rec[i].percentage = Num(75)
        /\ rec[i].defaultPropLastValue = "stop"
        /\ rec[i].defaultPropLastChgTime = Num(clock)
        /\ clock >= 2


---------------------------------------------------------------------------
(* Properties of timed percentage moves *)

(* The dispatcher hands the request to setBlindPercentage *)
SetPercentageCalled(dev, arg) ==
    /\ deviceFromName[dev] # NoRec
    /\ rec[deviceFromName[dev]].api = "conn"
    /\ rec[deviceFromName[dev]].type = "blind"
    /\ arg >= 0 /\ arg <= 100

(* C22: a request to set the percentage of a blind is answered "not        *)
(* calibrated" exactly when the percentage of the blind is unset, and then *)
(* no set command is sent to the device.                                   *)
C22_NotCalibratedIffUnset ==
    [][\A dev \in Names, arg \in PercArgs :
          (SetPercentageCalled(dev, arg) /\ HttpSetPercentage(dev, arg))
              => /\ (last'.resp = NotCalibrated) <=> ~PercentageSet(rec[deviceFromName[dev]])
                 /\ last'.resp = NotCalibrated => moves' = moves]_vars

(* C23: for a calibrated blind with percentage p in 0..100 and a target    *)
(* t # p, the request sends close if t > p and open if t < p; when that    *)
(* command has succeeded it waits |t - p| * fullTime / 100 in the unit of  *)
(* the travel times (fullCloseTime when closing, fullOpenTime when         *)
(* opening), and when the wait is over it sends stop.                      *)
C23_MoveAsStated ==
    [][\A i \in RecIds :
          /\ \A arg \in PercArgs :
                LET d == rec[i]
                    delta == JsSub(Num(arg), d.percentage)
                IN  (/\ Calibrated(d) /\ RatLeq(Num(0), d.percentage)
                     /\ RatLeq(d.percentage, Num(100))
                     /\ d.percentage # Num(arg)
                     /\ deviceFromName[d.name] = i /\ SetPercentageCalled(d.name, arg)
                     /\ HttpSetPercentage(d.name, arg))
                        => /\ moves'[i].stage = "start"
                           /\ moves'[i].value = IF JsGreater(delta, 0) THEN "close" ELSE "open"
          /\ \A v \in Values :
                (/\ Calibrated(rec[i]) /\ moves[i].stage = "start" /\ v = moves[i].value
                 /\ MoveStartSettles(i, v))
                    => /\ moves'[i].stage = "sleep"
                       /\ \E arg \in PercArgs :
                             LET delta == JsSub(Num(arg), rec[i].percentage)
                                 closing == JsGreater(delta, 0)
                             IN  /\ closing <=> moves[i].value = "close"
                                 /\ moves'[i].timer =
                                       JsDiv(JsMul(IF closing THEN delta ELSE JsNeg(delta),
                                                   IF closing THEN rec[i].fullCloseTime
                                                   ELSE rec[i].fullOpenTime), Num(100))
          /\ (rec[i].hasProps /\ MoveSleepEnds(i)) => moves'[i].stage = "stop"]_vars


(* C24: when the first set command (close or open) of a percentage move    *)
(* fails, the request ends with an error, no timer is armed and no stop    *)
(* command is ever sent for it; when the stop command fails, the request   *)
(* ends with an error; a stop command is sent only when the timer of a     *)
(* move ends, and success is reported only for a stop command that         *)
(* succeeded.                                                              *)
C24_MoveFailureAborts ==
    [][\A i \in RecIds :
          /\ \A v \in Values \cup {"rejected"} :
                /\ (/\ moves[i].stage = "start"
                     /\ \/ v = "rejected"
                        \/ v # moves[i].value /\ v # "stop"
                        \/ v = "stop" /\ rec[i].defaultPropLastValue \notin {"open", "close"}
                     /\ MoveStartSettles(i, v))
                        => /\ moves'[i] = NoMove
                           /\ last'.resp = MoveFailed(moves[i].value, SetFailure(v))
                           /\ ~last'.cmd
                /\ (moves[i].stage = "stop" /\ v # "stop" /\ MoveStopSettles(i, v))
                        => /\ moves'[i] = NoMove
                           /\ last'.resp = MoveFailed("stop", SetFailure(v))
          /\ (moves'[i].stage = "stop" /\ moves[i].stage # "stop")
                => moves[i].stage = "sleep" /\ IsNum(moves[i].timer)
          /\ (moves'[i].stage = "sleep" /\ moves[i].stage # "sleep")
                => moves[i].stage = "start"
          /\ (last'.op = "set" /\ last'.resp = "succ" /\ last' # last)
                => moves[i] = NoMove \/ moves[i].stage = "stop"]_vars

C24_Witness ==
    /\ last.op = "set" /\ last.resp = MoveFailed("close", "value rejected")
    /\ \A i \in RecIds : moves[i] = NoMove


---------------------------------------------------------------------------
(* Properties of the connection manager *)

(* C25: at any time at most one reconnect loop of a device is attempting   *)
(* to connect or waiting to retry; an error or disconnected event that     *)
(* arrives while such a loop runs does not start a second one.             *)
C25_AtMostOneLoop ==
    \A i \in RecIds : loops[i].connecting + loops[i].retrying <= 1

(* C27: a connect request on a device with a handle calls connect on the  *)
(* handle only after find has reported the device found; it succeeds only  *)
(* if find and connect both succeed; if find rejects or reports the device *)
(* not found, it fails with the device-not-found message and connect is    *)
(* not called; if connect fails, it fails with the failed-to-connect       *)
(* message; after a failure the device still has its handle and its entry  *)
(* in deviceFromName.                                                      *)
C27_ConnectAsStated ==
    [][\A i \in RecIds, find \in FindResults, conn \in ConnectResults :
          (rec[i].api # "none" /\ ConnectResolves(i, find, conn))
              => /\ last'.note = "find, connect" => find = "found"
                 /\ last'.resp = "succ" <=> (find = "found" /\ conn = "connected")
                 /\ find # "found"
                      => last'.resp = "device not found" /\ last'.note = "find"
                 /\ (find = "found" /\ conn # "connected")
                      => last'.resp = "failed to connect"
                 /\ last'.resp # "succ"
                      => /\ rec'[i].api = rec[i].api
                         /\ deviceFromName' = deviceFromName]_vars

(* C28: an error event of a device forwards an OnError notification        *)
(* upstream whether or not the device has a handle; it starts one          *)
(* reconnect loop when the device has a handle that is not connected, and  *)
(* starts none when the handle is connected or the device has been         *)
(* undefined; it changes nothing else of the device.                       *)
C28_ErrorEvent ==
    [][\A i \in RecIds :
          DeviceError(i, clock')
              => /\ last'.note = "OnError"
                 /\ rec' = rec
                 /\ rec[i].api = "disc"
                      => loops' = [loops EXCEPT ![i].connecting = @ + 1]
                 /\ rec[i].api \in {"conn", "none"} => loops' = loops]_vars

C28_Witness ==
    /\ last.op = "error" /\ last.note = "OnError" /\ last.dev = "a"
    /\ deviceFromName["a"] = NoRec
    /\ \E i \in RecIds : rec[i].name = "a" /\ rec[i].api = "none"
    /\ \A i \in RecIds : loops[i] = NoLoops

(* C29: a disconnected event of a device that still has its handle        *)
(* forwards one OnDisconnected notification upstream and starts one        *)
(* reconnect loop; for a device that has been undefined nothing is         *)
(* forwarded and no loop is started, also when the event comes from the    *)
(* disconnect call of the undef request itself: an undef request forwards  *)
(* nothing and starts no loop.                                             *)
C29_DisconnectedEvent ==
    [][/\ \A i \in RecIds :
             DeviceDisconnected(i, clock')
                 => IF rec[i].api # "none"
                    THEN /\ last'.note = "OnDisconnected"
                         /\ loops' = [loops EXCEPT ![i].connecting = @ + 1]
                    ELSE /\ last'.note = "none"
                         /\ loops' = loops
       /\ \A dev \in Names :
             HttpUndef(dev) => last'.note = "none" /\ loops' = loops]_vars

(* C30: a reconnect loop that wakes from its wait between two attempts     *)
(* goes on to its next attempt without an uncaught error, also when the    *)
(* device has been undefined during the wait.                              *)
C30_LoopSurvivesUndef ==
    [][\A i \in RecIds :
          LoopRetries(i)
              => /\ last'.resp # "unhandled rejection"
                 /\ loops' = [loops EXCEPT ![i].retrying = @ - 1,
                                           ![i].connecting = @ + 1]]_vars

(* C26: a reconnect loop whose attempt failed waits before it attempts     *)
(* again; a loop ends only from its wait after a successful attempt, so it *)
(* never gives up while attempts fail and makes no attempt after its first *)
(* success; and under the fairness of SpecLoop every device with a         *)
(* reconnect loop under way is eventually connected with no loop left.     *)
C26_LoopUntilConnected ==
    /\ [][\A i \in RecIds :
             /\ \A find \in FindResults, conn \in ConnectResults :
                   LoopAttemptSettles(i, find, conn)
                       => IF find = "found" /\ conn = "connected"
                          THEN /\ rec'[i].api = "conn"
                               /\ loops' = [loops EXCEPT ![i].connecting = @ - 1,
                                                         ![i].finishing = @ + 1]
                          ELSE /\ rec'[i].api = rec[i].api
                               /\ loops' = [loops EXCEPT ![i].connecting = @ - 1,
                                                         ![i].retrying = @ + 1]
             /\ LoopRetries(i)
                   => loops' = [loops EXCEPT ![i].retrying = @ - 1, ![i].connecting = @ + 1]
             /\ LoopCount(i)' < LoopCount(i)
                   => /\ loops[i].finishing > 0
                      /\ loops' = [loops EXCEPT ![i].finishing = @ - 1]
             /\ loops'[i].connecting > loops[i].connecting
                   => loops'[i].finishing = loops[i].finishing]_vars
    /\ \A i \in RecIds :
          (LoopCount(i) > 0) ~> (LoopCount(i) = 0 /\ rec[i].api = "conn")

C26_Witness ==
    /\ last.op = "reconnect" /\ last.resp = "ended"
    /\ \E i \in RecIds : rec[i].api = "conn" /\ LoopCount(i) = 0
    /\ clock >= 1

---------------------------------------------------------------------------
(* Properties of the notifications, of stale events and of the dispatcher *)

(* C31: an event forwards an OnPropChanged notification for a native       *)
(* property if and only if its snapshot holds exactly one property, and    *)
(* the notification of a configured index carries the configured name and  *)
(* the value of the snapshot.                                              *)
C31_PropChangedIffSingle ==
    [][\A i \in RecIds, data \in Snapshots :
          DeviceDataNoted(i, data, clock')
              => /\ (last'.note # "none") <=> (data.n = 1)
                 /\ (data.n = 1 /\ data.idx = 1)
                        => last'.note = "OnPropChanged state " \o data.value
                 /\ (data.n = 1 /\ data.idx # 1)
                        => last'.note = "OnPropChanged undefined " \o data.value]_vars

C31_Witness ==
    /\ last.op = "data"
    /\ last.note = "OnPropChanged state stop"
    /\ \E i \in RecIds : rec[i].api = "conn" /\ rec[i].defaultPropLastValue = "stop"

(* C32: an event whose snapshot holds more than one property (index 1      *)
(* among them or not), or whose single property is not index 1, leaves the *)
(* device's last value, last change time, percentage and travel times and  *)
(* the calibration target and phase unchanged.                             *)
C32_OtherSnapshotsChangeNothing ==
    [][\A i \in RecIds, data \in Snapshots :
          ((data.n # 1 \/ data.idx # 1) /\ DeviceDataNoted(i, data, clock'))
              => /\ rec'[i].defaultPropLastValue = rec[i].defaultPropLastValue
                 /\ rec'[i].defaultPropLastChgTime = rec[i].defaultPropLastChgTime
                 /\ rec'[i].percentage = rec[i].percentage
                 /\ rec'[i].fullCloseTime = rec[i].fullCloseTime
                 /\ rec'[i].fullOpenTime = rec[i].fullOpenTime
                 /\ UNCHANGED <<blindBeingCalibrated, blindCalibrationPhase>>]_vars

C32_Witness ==
    /\ last.op = "data"
    /\ last.note = "none"
    /\ clock >= 1
    /\ \E i \in RecIds :
          /\ rec[i].api = "conn"
          /\ rec[i].defaultPropLastValue \in {"open", "close"}
          /\ rec[i].defaultPropLastChgTime.n < clock
          /\ rec[i].percentage.k # "undef"

(* C33: every request to set or to get the percentage is answered exactly  *)
(* once, with a success or an error text, whatever the state of the blind, *)
(* and no outcome is a failure that nobody handles.                        *)
C33_OneResponse ==
    [][\A dev \in Names :
          /\ \A arg \in PercArgs :
                HttpSetPercentage(dev, arg)
                    => /\ responseFromPromise(last'.resp) # NoResponse
                       /\ last'.note # "unhandled rejection"
          /\ HttpGetPercentage(dev)
                => /\ last'.resp # NoResponse
                   /\ last'.note # "unhandled rejection"]_vars

(* C40: a request to get the percentage sends no set command to the        *)
(* device, starts no timed move, and leaves the percentage and the last    *)
(* default value of the device unchanged.                                  *)
C40_GetIsReadOnly ==
    [][\A dev \in Names :
          HttpGetPercentage(dev)
              => /\ ~last'.cmd
                 /\ moves' = moves
                 /\ \A i \in RecIds :
                       /\ rec'[i].percentage = rec[i].percentage
                       /\ rec'[i].defaultPropLastValue = rec[i].defaultPropLastValue]_vars

(* C34: in every state the calibration target is set if and only if the    *)
(* calibration phase is set, and a phase that is set is one of 0..6.       *)
C34_TargetIffPhase ==
    /\ (blindBeingCalibrated # NoRec) <=> (blindCalibrationPhase # UndefPhase)
    /\ blindCalibrationPhase # UndefPhase => blindCalibrationPhase \in 0..6

(* C35: the outcome of a set command (success if the device reports the    *)
(* requested value, or reports stop to an open or close that reverses the  *)
(* last direction of a blind; failure otherwise) is the same whether the   *)
(* data event the command causes is processed after the response or        *)
(* before it.                                                              *)
C35_SetOutcomeAnyOrder ==
    [][\A i \in RecIds, v \in Values :
          MoveStartSettles(i, v)
              => LET eventFirst == onDeviceData(rec[i], i, blindBeingCalibrated,
                                                blindCalibrationPhase,
                                                DefaultEvent(v), clock).dev
                 IN  SetSuccess(rec[i], 1, moves[i].value, v)
                         <=> SetSuccess(eventFirst, 1, moves[i].value, v)]_vars

(* C36: a define request for a name changes the type, address, key, name   *)
(* and handle of no Device with another name, except a Device it renames   *)
(* because its type, address and key are those of the request.             *)
C36_DefineLeavesOthers ==
    [][\A dev \in Names, t \in Types, kd \in Kinds, a \in Addrs, ky \in Keys :
          HttpDefine(dev, t, kd, a, ky)
              => \A i \in RecIds :
                    (/\ rec[i].alloc
                     /\ rec[i].name # dev
                     /\ ~MatchesArgs(rec[i], t, kd, a, ky))
                        => /\ rec'[i].type = rec[i].type
                           /\ rec'[i].ip = rec[i].ip
                           /\ rec'[i].id = rec[i].id
                           /\ rec'[i].key = rec[i].key
                           /\ rec'[i].name = rec[i].name
                           /\ rec'[i].api = rec[i].api]_vars

(* C37: whenever the calibration target is set, the target Device has a    *)
(* handle and deviceFromName maps its name to it.                          *)
C37_TargetIsLive ==
    blindBeingCalibrated # NoRec
        => /\ rec[blindBeingCalibrated].api # "none"
           /\ deviceFromName[rec[blindBeingCalibrated].name] = blindBeingCalibrated

(* C38: when the begin command of a Device settles while another Device is *)
(* the calibration target, the target and the phase stay as they are.      *)
C38_OwnFailureOnly ==
    [][\A i \in RecIds, v \in Values \cup {"rejected"} :
          (/\ blindBeingCalibrated # NoRec
           /\ blindBeingCalibrated # i
           /\ BeginSettles(i, v))
              => UNCHANGED <<blindBeingCalibrated, blindCalibrationPhase>>]_vars

(* C39: a data event delivered by the handle of a Device that has been     *)
(* undefined since raises no error and changes neither the Device nor the  *)
(* calibration target and phase.                                           *)
C39_StaleEventIsHarmless ==
    [][\A i \in RecIds, data \in Snapshots :
          StaleData(i, data, clock')
              => /\ last'.resp # "TypeError"
                 /\ UNCHANGED <<rec, blindBeingCalibrated, blindCalibrationPhase>>]_vars

===========================================================================
